---- MODULE Spec2Model ----
(***************************************************************************)
(* Corundum: the transaction driver (src/alloc/pool.rs), the journal and   *)
(* its pages (src/stm/journal.rs) and the recovery run, as a state machine *)
(* of one thread working on one pool.  A step is one persistent store or   *)
(* one call boundary, so that a crash can fall between any two of them.    *)
(*                                                                         *)
(* The log record (stm/log.rs), the chaperone (stm/chaperon.rs) and the    *)
(* concrete pool's open/recover/new_journal/drop_journal are not part of   *)
(* the sources at hand; they follow sections 3, 4.2, 4.6 and 4.7 of the    *)
(* specification.                                                          *)
(***************************************************************************)
EXTENDS Integers, Sequences, FiniteSets, TLC

\* Bounds of the model.
MaxWrites == 3            \* logged writes per outermost transaction
PageCap == 2              \* log slots per page (PAGE_SIZE = 64 in the source)
MaxDepth == 3             \* nested transaction() frames

\* The flag bit of journal.rs.
JOURNAL_COMMITTED == 1

Locs == {"root", "aux"}   \* persistent user cells; "root" is the root object
Vals == {0, 1}

VARIABLES
    \* ---- persistent (survives a crash) ----
    mem,         \* user data: [Locs -> Vals]
    linked,      \* the thread's journal exists and is linked in the pool's list
    pages,       \* Journal.pages: the page list, newest first
    flags,       \* Journal.flags
    sec_id,      \* Journal.sec_id
    chaperon,    \* Journal.chaperon: the chaperone's file path, "" when none
    chapFile,    \* the chaperone file: "none", "open" (incomplete), "complete"
    \* ---- volatile (lost in a crash) ----
    pc,          \* position of the thread
    depth,       \* transaction() frames on the call stack
    nest,        \* journals[tid].1, the nesting counter
    chaperoned,  \* the local `chaperoned` of the running transaction()
    session,     \* a chaperone is installed for the thread (Chaperon::current())
    jop,         \* the Journal method running: "none", "commit", "rollback", "recover"
    drv,         \* its caller, to continue with when it returns
    cur,         \* loop cursor of the running Journal method: [pg, i]
    pend,        \* a logged write whose store has not been done
    \* ---- history (observes, never read by the program) ----
    h,           \* record of observations, see HInit
    \* ---- single calls (fast_forward, apply_flags, deref, off) ----
    arg,         \* the call and its inputs
    ret,         \* what the call returned
    \* ---- the allocator (persistent) ----
    heap,        \* allocated blocks, available units, the zone's staged state
    \* ---- the pool's list of journals ----
    jl,          \* header's head, the journals' links, the running operation
    \* ---- the file system ----
    pfile        \* the pool file at the path given to open

\* The variables of the transaction, journal and recovery model.
tvars == <<mem, linked, pages, flags, sec_id, chaperon, chapFile,
           pc, depth, nest, chaperoned, session, jop, drv, cur, pend, h>>

\* The variables of single calls: their inputs and what they return.
xvars == <<arg, ret, heap, jl, pfile>>

\* What a model of one part leaves alone.
besideFF == <<tvars, arg, heap, jl, pfile>>
besideAlloc == <<tvars, jl, pfile>>
besideLink == <<tvars, arg, ret, heap, pfile>>
besideFlags == <<tvars, heap, jl>>

vars == <<tvars, xvars>>

NoArg == [op |-> "none"]
NoRet == [kind |-> "none"]

\* The allocator of a fresh pool: nothing allocated, nothing staged.
HeapUnits == 4
Heap0 ==
    [alloc |-> {},            \* allocated blocks [off, len]
     avail |-> HeapUnits,     \* what available() returns
     staged |-> <<>>,         \* staged updates of the zone, applied by perform
     dof |-> {},              \* DropOnFailure records of the zone
     operating |-> FALSE]     \* the zone's "operating" flag

\* The journals of the pool: one slot a thread; offset 0 stands for u64::MAX.
MaxJournals == 3
JIds == 1..MaxJournals
NoOff == 0
NoOp == [t |-> 0, step |-> "none"]
Jl0 ==
    [head |-> NoOff,                          \* the header's head of the list
     j |-> [i \in JIds |-> [alloc |-> FALSE, next |-> NoOff, prev |-> NoOff]],
     own |-> {},                              \* journals(): the threads' journals
     op |-> NoOp,                             \* the operation holding the pool's guard
     mode |-> "run",                          \* "run", "crashed", "recover"
     crashIn |-> "none"]                      \* the step the last kill fell into

\* The variables outside a single call at rest.
\* A file length: gib * 2^30 + bytes.
Length(gib, bytes) == [gib |-> gib, bytes |-> bytes]

\* The file at the pool's path: whether it exists, its length, and what
\* the call did to it (ops: "remove", "create", "format", in order).
NoFile == [exists |-> FALSE, len |-> Length(0, 0), ops |-> <<>>]
XInit == arg = NoArg /\ ret = NoRet /\ heap = Heap0 /\ jl = Jl0 /\ pfile = NoFile

pvars == <<mem, linked, pages, flags, sec_id, chaperon, chapFile>>

NoPend == [loc |-> "none", val |-> 0]
Cur0 == [pg |-> 1, i |-> 0]

\* Observations: pre/post images of the outermost transaction, the Journal
\* methods called since it began, what transaction() returned, and so on.
HInit ==
    [ pre      |-> [l \in Locs |-> 0],  \* mem when the outermost frame began
      post     |-> [l \in Locs |-> 0],  \* mem when the outermost body returned
      bodyDone |-> FALSE,               \* the outermost body returned normally
      ret      |-> 0,                   \* the value the outermost body returned
      nlogs    |-> 0,                   \* records appended since the outermost frame began
      calls    |-> <<>>,                \* Journal methods entered, in order
      res      |-> "none",              \* result of the outermost transaction()
      resVal   |-> 0,
      panicked |-> FALSE,               \* some body of the nest panicked
      panicDepth |-> 0,                 \* depth of the frame whose body panicked first
      unwound  |-> {},                  \* depths whose frame was left by a panic
      returned |-> {},                  \* depths whose transaction() returned after the panic
      stmtAfterPanic |-> FALSE,         \* a body statement ran after the panic
      innerRet |-> FALSE,               \* an inner frame returned normally
      innerOp  |-> FALSE,               \* a Journal method was entered under an active enclosing frame
      committedAt |-> FALSE,            \* Journal.commit completed (flag set by commit)
      chapTx   |-> FALSE,               \* the transaction is chaperoned
      rbCalls  |-> {},                  \* ids of the records Journal.recover rolled back
      recOf    |-> "none",              \* what the journal under recovery was, see RecKind
      recFirst |-> "none",              \* the same at the first crash of the episode
      recRuns  |-> 0,                   \* recovery runs started since that crash (up to 2)
      recTarget |-> [mem |-> [l \in Locs |-> 0], linked |-> FALSE, pages |-> <<>>,
                     flags |-> 0, sec_id |-> 0, chaperon |-> "", chapFile |-> "none"],
                                        \* the pool an uninterrupted run leaves, see RecoverRun
      ev       |-> "none" ]             \* last event: "none", "returned", "crashed", "recovered"

----------------------------------------------------------------------------
\* Log records (specification 3 and 4.2).

NewLog(id, off, pre) ==
    [id |-> id, off |-> off, pre |-> pre, st |-> "Armed", dirty |-> TRUE]

\* notify(): the dirty notifier is cleared.
LogNotify(r) == [r EXCEPT !.dirty = FALSE]

\* commit(): Armed -> Committed, the preimage is freed.
LogCommit(r) == IF r.st = "Armed" THEN [r EXCEPT !.st = "Committed"] ELSE r

\* rollback(): the preimage, while the record still owns it, is copied back.
HasPreimage(r) == r.st \in {"Armed", "RolledBack"}
LogRollback(r) == IF HasPreimage(r) THEN [r EXCEPT !.st = "RolledBack"] ELSE r
LogRollbackMem(m, r) == IF HasPreimage(r) THEN [m EXCEPT ![r.off] = r.pre] ELSE m

Range(f) == {f[k] : k \in DOMAIN f}

\* clear(): notifier cleared, record marked empty.
LogClear(r) == [r EXCEPT !.st = "Cleared", !.dirty = FALSE]

----------------------------------------------------------------------------
\* The journal and the driver of a thread at rest, no journal created.
JInit ==
    /\ linked = FALSE
    /\ pages = <<>>
    /\ flags = 0
    /\ sec_id = 0
    /\ chaperon = ""
    /\ chapFile = "none"
    /\ pc = "idle"
    /\ depth = 0
    /\ nest = 0
    /\ chaperoned = FALSE
    /\ session = FALSE
    /\ jop = "none"
    /\ drv = "none"
    /\ cur = Cur0
    /\ pend = NoPend
    /\ h = HInit

\* The same on a fresh pool.
TInit == mem = [l \in Locs |-> 0] /\ JInit

Init == TInit /\ XInit

----------------------------------------------------------------------------
\* Journal flags (journal.rs, is_set / set / reset); one flag bit is in use.

is_set(f, flag) == (f \div flag) % 2 = 1
set(f, flag) == IF is_set(f, flag) THEN f ELSE f + flag
reset(f, flag) == IF is_set(f, flag) THEN f - flag ELSE f

\* The log slots of a page.
PAGE_SIZE == 64

\* The slots of a page in the model: PAGE_SIZE in the page-overflow run,
\* PageCap otherwise.
PageSlots == IF arg.op = "overflow" THEN PAGE_SIZE ELSE PageCap

\* Mutant of is_full: the test is > instead of ==.
is_full_Greater(page) == page.len > PageSlots

\* Page::is_full
is_full(page) == page.len = PageSlots

\* Journal::new_page: an empty page whose next is the previous newest page;
\* its allocation and the head update become visible in one perform.
new_page(pgs) == <<[len |-> 0, head |-> 0, logs |-> <<>>]>> \o pgs

\* Page::write on the newest page: the record goes to logs[len], len += 1.
page_write(pgs, r) ==
    [pgs EXCEPT ![1] = [@ EXCEPT !.logs = Append(@, r), !.len = @ + 1]]

\* Journal::write (pin_journals off): a new page when the newest page is
\* dangling or full, then Page::write.
journal_write(pgs, r) ==
    IF pgs = <<>> THEN page_write(new_page(pgs), r)
    ELSE IF is_full(pgs[1]) THEN page_write(new_page(pgs), r)
    ELSE page_write(pgs, r)

\* Journal::fast_forward: "yes", "no", or "panic" when the chaperone file of a
\* committed, chaperoned journal cannot be loaded.
\* Mutant of fast_forward_of: the chaperone is consulted before COMMITTED is
\* tested.
fast_forward_of_ChaperonFirst(f, sid, path, file) ==
    IF sid # 0 /\ path # ""
    THEN IF file = "none" THEN "panic"
         ELSE IF file = "complete" /\ is_set(f, JOURNAL_COMMITTED) THEN "yes" ELSE "no"
    ELSE IF is_set(f, JOURNAL_COMMITTED) THEN "yes" ELSE "no"

fast_forward_of(f, sid, path, file) ==
    IF ~is_set(f, JOURNAL_COMMITTED) THEN "no"
    ELSE IF sid # 0 /\ path # ""
         THEN IF file = "none" THEN "panic"
              ELSE IF file = "complete" THEN "yes" ELSE "no"
         ELSE "yes"

fast_forward == fast_forward_of(flags, sec_id, chaperon, chapFile)

----------------------------------------------------------------------------
\* The transaction driver, MemPool::transaction.

HBegin ==
    IF depth = 0
    THEN [HInit EXCEPT !.pre = mem, !.chapTx = session]
    ELSE [h EXCEPT !.stmtAfterPanic = @ \/ h.panicked]

\* Journal::current(true): the thread's journal, created (new_journal) when
\* the thread has none.
CurrentCreate ==
    IF linked
    THEN /\ linked' = linked
         /\ pages' = pages
         /\ flags' = reset(flags, JOURNAL_COMMITTED)
    ELSE /\ linked' = TRUE
         /\ pages' = <<>>
         /\ flags' = reset(0, JOURNAL_COMMITTED)

\* transaction(), not chaperoned: the journal is obtained, the counter is
\* incremented, COMMITTED is reset and the body starts.
Begin ==
    /\ \/ pc = "idle" /\ depth = 0
       \/ pc = "body" /\ depth < MaxDepth /\ ~chaperoned
    /\ ~session
    /\ CurrentCreate
    /\ nest' = nest + 1
    /\ depth' = depth + 1
    /\ chaperoned' = FALSE
    /\ pc' = "body"
    /\ h' = HBegin
    /\ UNCHANGED <<mem, sec_id, chaperon, chapFile, session, jop, drv, cur, pend>>
    /\ UNCHANGED xvars

\* transaction() under a chaperone: the callbacks are postponed on the
\* chaperone, start_session attaches the journal, COMMITTED is reset.
BeginChaperoned ==
    /\ pc = "sess" /\ depth = 0
    /\ session
    /\ CurrentCreate
    /\ nest' = nest + 1
    /\ depth' = depth + 1
    /\ chaperoned' = TRUE
    /\ IF sec_id # 0
       THEN UNCHANGED <<sec_id, chaperon>>
       ELSE sec_id' = 1 /\ chaperon' = "chap"
    /\ pc' = "body"
    /\ h' = HBegin
    /\ UNCHANGED <<mem, chapFile, session, jop, drv, cur, pend>>
    /\ UNCHANGED xvars

\* A logged write of the body, first half: the undo record is appended
\* (Journal::write) with the cell's present value as its preimage.
LogWrite(l, v) ==
    /\ pc = "body"
    /\ h.nlogs < MaxWrites
    /\ pages' = journal_write(pages, NewLog(h.nlogs + 1, l, mem[l]))
    /\ pend' = [loc |-> l, val |-> v]
    /\ pc' = "store"
    /\ h' = [h EXCEPT !.nlogs = @ + 1, !.stmtAfterPanic = @ \/ h.panicked]
    /\ UNCHANGED <<mem, linked, flags, sec_id, chaperon, chapFile,
                   depth, nest, chaperoned, session, jop, drv, cur>>
    /\ UNCHANGED xvars

\* Second half: the store to the cell.
Store ==
    /\ pc = "store"
    /\ mem' = [mem EXCEPT ![pend.loc] = pend.val]
    /\ pend' = NoPend
    /\ pc' = "body"
    /\ UNCHANGED <<linked, pages, flags, sec_id, chaperon, chapFile,
                   depth, nest, chaperoned, session, jop, drv, cur, h>>
    /\ UNCHANGED xvars

\* The body panics; catch_unwind of the running frame yields Err.
BodyPanic ==
    /\ pc = "body"
    /\ pc' = "ret_err"
    /\ h' = [h EXCEPT !.panicked = TRUE,
                      !.panicDepth = IF h.panicked THEN @ ELSE depth,
                      !.stmtAfterPanic = @ \/ h.panicked]
    /\ UNCHANGED <<pvars, depth, nest, chaperoned, session, jop, drv, cur, pend>>
    /\ UNCHANGED xvars

\* The body returns normally (its value is the root's); catch_unwind yields Ok.
BodyReturn ==
    /\ pc = "body"
    /\ pc' = "ret_ok"
    /\ h' = IF depth = 1
            THEN [h EXCEPT !.post = mem, !.bodyDone = TRUE, !.ret = mem["root"],
                           !.stmtAfterPanic = @ \/ h.panicked]
            ELSE [h EXCEPT !.stmtAfterPanic = @ \/ h.panicked]
    /\ UNCHANGED <<pvars, depth, nest, chaperoned, session, jop, drv, cur, pend>>
    /\ UNCHANGED xvars

\* Entering a Journal method from the driver.
EnterJournal(method, caller) ==
    /\ jop' = method
    /\ drv' = caller
    /\ cur' = Cur0
    /\ pc' = "notify"

HCall(name) ==
    [h EXCEPT !.calls = Append(@, name), !.innerOp = @ \/ depth > 1]

\* Mutant of TxCommitOuter: journal.clear() without journal.commit().
TxCommitOuter_NoCommit ==
    /\ pc = "ret_ok" /\ ~chaperoned
    /\ nest - 1 = 0
    /\ nest' = nest - 1
    /\ drv' = "tx_ok"
    /\ pc' = "clr"
    /\ UNCHANGED <<pvars, depth, chaperoned, session, jop, cur, pend, h>>
    /\ UNCHANGED xvars

\* MemPool::commit, counter reaching 0: Journal.commit, then Journal.clear.
TxCommitOuter ==
    /\ pc = "ret_ok" /\ ~chaperoned
    /\ nest - 1 = 0
    /\ nest' = nest - 1
    /\ EnterJournal("commit", "tx_ok")
    /\ h' = HCall("commit")
    /\ UNCHANGED <<pvars, depth, chaperoned, session, pend>>
    /\ UNCHANGED xvars

\* Mutant of TxCommitInner: the inner frame commits the journal itself (no
\* test of the counter).
TxCommitInner_Commits ==
    /\ pc = "ret_ok" /\ ~chaperoned
    /\ nest - 1 # 0
    /\ nest' = nest - 1
    /\ EnterJournal("commit", "tx_ok")
    /\ h' = HCall("commit")
    /\ UNCHANGED <<pvars, depth, chaperoned, session, pend>>
    /\ UNCHANGED xvars

\* MemPool::commit in an inner frame: the counter is decremented and
\* transaction() returns Ok to the enclosing body.
TxCommitInner ==
    /\ pc = "ret_ok" /\ ~chaperoned
    /\ nest - 1 # 0
    /\ nest' = nest - 1
    /\ depth' = depth - 1
    /\ pc' = "body"
    /\ h' = [h EXCEPT !.returned = IF h.panicked THEN @ \cup {depth} ELSE @,
                      !.innerRet = TRUE]
    /\ UNCHANGED <<pvars, chaperoned, session, jop, drv, cur, pend>>
    /\ UNCHANGED xvars

\* Mutant of TxRollbackOuter: journal.commit() in the place of rollback().
TxRollbackOuter_Commits ==
    /\ pc = "ret_err" /\ ~chaperoned
    /\ nest - 1 = 0
    /\ nest' = nest - 1
    /\ EnterJournal("commit", "tx_err")
    /\ h' = HCall("commit")
    /\ UNCHANGED <<pvars, depth, chaperoned, session, pend>>
    /\ UNCHANGED xvars

\* MemPool::rollback, counter reaching 0: Journal.rollback, then Journal.clear.
TxRollbackOuter ==
    /\ pc = "ret_err" /\ ~chaperoned
    /\ nest - 1 = 0
    /\ nest' = nest - 1
    /\ EnterJournal("rollback", "tx_err")
    /\ h' = HCall("rollback")
    /\ UNCHANGED <<pvars, depth, chaperoned, session, pend>>
    /\ UNCHANGED xvars

\* Mutant of TxRollbackInner: the inner transaction() returns Err to the
\* enclosing body and does not panic.
TxRollbackInner_Returns ==
    /\ pc = "ret_err" /\ ~chaperoned
    /\ nest - 1 # 0
    /\ nest' = nest - 1
    /\ depth' = depth - 1
    /\ pc' = "body"
    /\ h' = [h EXCEPT !.returned = @ \cup {depth}]
    /\ UNCHANGED <<pvars, chaperoned, session, jop, drv, cur, pend>>
    /\ UNCHANGED xvars

\* Mutant of TxRollbackInner: the inner frame rolls the journal back itself
\* (no test of the counter).
TxRollbackInner_RollsBack ==
    /\ pc = "ret_err" /\ ~chaperoned
    /\ nest - 1 # 0
    /\ nest' = nest - 1
    /\ EnterJournal("rollback", "tx_err")
    /\ h' = HCall("rollback")
    /\ UNCHANGED <<pvars, depth, chaperoned, session, pend>>
    /\ UNCHANGED xvars

\* MemPool::rollback in an inner frame: panic!("Unsuccessful nested
\* transaction") leaves this transaction() and unwinds the enclosing body,
\* whose catch_unwind yields Err.
TxRollbackInner ==
    /\ pc = "ret_err" /\ ~chaperoned
    /\ nest - 1 # 0
    /\ nest' = nest - 1
    /\ depth' = depth - 1
    /\ pc' = "ret_err"
    /\ h' = [h EXCEPT !.unwound = @ \cup {depth}]
    /\ UNCHANGED <<pvars, chaperoned, session, jop, drv, cur, pend>>
    /\ UNCHANGED xvars

\* Mutant of TxReturnChaperoned: the driver commits as in a transaction that
\* is not chaperoned.
TxReturnChaperoned_Commits ==
    /\ pc = "ret_ok" /\ chaperoned
    /\ nest' = nest - 1
    /\ EnterJournal("commit", "tx_ok")
    /\ h' = HCall("commit")
    /\ UNCHANGED <<pvars, depth, chaperoned, session, pend>>
    /\ UNCHANGED xvars

\* transaction() under a chaperone returns Ok without committing.
TxReturnChaperoned ==
    /\ pc = "ret_ok" /\ chaperoned
    /\ depth' = depth - 1
    /\ pc' = "sess_ok"
    /\ h' = [h EXCEPT !.res = "Ok", !.resVal = h.ret]
    /\ UNCHANGED <<pvars, nest, chaperoned, session, jop, drv, cur, pend>>
    /\ UNCHANGED xvars

\* transaction() under a chaperone panics again ("Unsuccessful chaperoned
\* transaction") without rolling back.
TxPanicChaperoned ==
    /\ pc = "ret_err" /\ chaperoned
    /\ depth' = depth - 1
    /\ pc' = "sess_err"
    /\ h' = [h EXCEPT !.unwound = @ \cup {depth}]
    /\ UNCHANGED <<pvars, nest, chaperoned, session, jop, drv, cur, pend>>
    /\ UNCHANGED xvars

----------------------------------------------------------------------------
\* Journal::commit, Journal::rollback, Journal::recover: the loops over the
\* pages, one page (notify) or one record (commit, rollback, recover) a step.

\* Page::notify: every record of the page is notified.
notify(page) ==
    [page EXCEPT !.logs = [k \in 1..Len(page.logs) |-> LogNotify(page.logs[k])]]

\* Page::notify for the page under the cursor, then the next page.
JNotifyPage ==
    /\ pc = "notify"
    /\ cur.pg <= Len(pages)
    /\ pages' = [pages EXCEPT ![cur.pg] = notify(@)]
    /\ cur' = [cur EXCEPT !.pg = @ + 1]
    /\ UNCHANGED <<mem, linked, flags, sec_id, chaperon, chapFile,
                   pc, depth, nest, chaperoned, session, jop, drv, pend, h>>
    /\ UNCHANGED xvars

\* End of the notify loop of commit and rollback: the second loop starts.
JNotifyDone ==
    /\ pc = "notify"
    /\ cur.pg > Len(pages)
    /\ jop \in {"commit", "rollback"}
    /\ cur' = Cur0
    /\ pc' = "apply"
    /\ UNCHANGED <<pvars, depth, nest, chaperoned, session, jop, drv, pend, h>>
    /\ UNCHANGED xvars

\* Skipping the body of Journal::recover, or leaving it after its loop.
RecoverReturns == pc' = "clr" /\ cur' = Cur0

\* Mutant of JRecoverDecide: every journal is rolled back.
JRecoverDecide_AlwaysRollback ==
    /\ pc = "notify"
    /\ cur.pg > Len(pages)
    /\ jop = "recover"
    /\ pc' = "apply"
    /\ cur' = [pg |-> 1, i |-> 0, rb |-> TRUE]
    /\ UNCHANGED <<pvars, depth, nest, chaperoned, session, jop, drv, pend, h>>
    /\ UNCHANGED xvars

\* Journal::recover after its notify loop: fast_forward is evaluated and the
\* recover loop is entered when the journal is not COMMITTED or is to be
\* fast-forwarded; page.recover gets !fast_forward || !COMMITTED.
JRecoverDecide ==
    /\ pc = "notify"
    /\ cur.pg > Len(pages)
    /\ jop = "recover"
    /\ IF fast_forward = "panic"
       THEN pc' = "rec_failed" /\ cur' = Cur0
       ELSE IF ~is_set(flags, JOURNAL_COMMITTED) \/ fast_forward = "yes"
            THEN /\ pc' = "apply"
                 /\ cur' = [pg |-> 1, i |-> 0,
                            rb |-> (fast_forward # "yes"
                                    \/ ~is_set(flags, JOURNAL_COMMITTED))]
            ELSE RecoverReturns
    /\ UNCHANGED <<pvars, depth, nest, chaperoned, session, jop, drv, pend, h>>
    /\ UNCHANGED xvars

\* Mutant of PageIndex: Page::recover visits the records in insertion order.
PageIndex_Forward(method, len, i) == i + 1

\* Index (from 1) of the record visited at loop position i of a page:
\* Page::commit and Page::rollback go up, Page::recover goes down.
PageIndex(method, len, i) ==
    IF method = "recover" THEN (len - i - 1) + 1 ELSE i + 1

\* The cursor after the record at loop position i of page pg.
Advance(c) ==
    IF c.i + 1 < pages[c.pg].len
    THEN [c EXCEPT !.i = @ + 1]
    ELSE [c EXCEPT !.pg = @ + 1, !.i = 0]

\* What the running method does to one record and to the user data.
ApplyLog(method, c, r) ==
    IF method = "commit" THEN LogCommit(r)
    ELSE IF method = "rollback" THEN LogRollback(r)
    ELSE IF c.rb THEN LogRollback(r) ELSE r

ApplyMem(method, c, m, r) ==
    IF method = "commit" THEN m
    ELSE IF method = "rollback" THEN LogRollbackMem(m, r)
    ELSE IF c.rb THEN LogRollbackMem(m, r) ELSE m

\* One record of Page::commit / Page::rollback / Page::recover.
JApplyLog ==
    /\ pc = "apply"
    /\ cur.pg <= Len(pages)
    /\ LET page == pages[cur.pg]
           k == PageIndex(jop, page.len, cur.i)
           r == page.logs[k]
       IN /\ pages' = [pages EXCEPT ![cur.pg].logs[k] = ApplyLog(jop, cur, r)]
          /\ mem' = ApplyMem(jop, cur, mem, r)
          /\ h' = IF jop = "recover" /\ cur.rb
                  THEN [h EXCEPT !.rbCalls = @ \cup {r.id}]
                  ELSE h
    /\ cur' = Advance(cur)
    /\ UNCHANGED <<linked, flags, sec_id, chaperon, chapFile,
                   pc, depth, nest, chaperoned, session, jop, drv, pend>>
    /\ UNCHANGED xvars

\* End of the second loop.
JApplyDone ==
    /\ pc = "apply"
    /\ cur.pg > Len(pages)
    /\ pc' = "setflag"
    /\ cur' = Cur0
    /\ UNCHANGED <<pvars, depth, nest, chaperoned, session, jop, drv, pend, h>>
    /\ UNCHANGED xvars

\* Mutant of JSetFlag: COMMITTED is set when the second loop begins.
JSetFlag_Early ==
    /\ pc = "apply"
    /\ cur = Cur0
    /\ flags' = set(flags, JOURNAL_COMMITTED)
    /\ pc' = IF drv = "chap_commit" THEN "sess_committed"
             ELSE IF drv = "chap_rollback" THEN "sess_rolled"
             ELSE "clr"
    /\ h' = IF jop = "commit" THEN [h EXCEPT !.committedAt = TRUE] ELSE h
    /\ UNCHANGED <<mem, linked, pages, sec_id, chaperon, chapFile,
                   depth, nest, chaperoned, session, jop, drv, cur, pend>>
    /\ UNCHANGED xvars

\* self.set(JOURNAL_COMMITTED), persisted; the method returns to its caller:
\* MemPool::commit, MemPool::rollback and the recovery run go on to
\* Journal::clear, the chaperone's callbacks return to the chaperone.
JSetFlag ==
    /\ pc = "setflag"
    /\ flags' = set(flags, JOURNAL_COMMITTED)
    /\ pc' = IF drv = "chap_commit" THEN "sess_committed"
             ELSE IF drv = "chap_rollback" THEN "sess_rolled"
             ELSE "clr"
    /\ h' = IF jop = "commit" THEN [h EXCEPT !.committedAt = TRUE] ELSE h
    /\ UNCHANGED <<mem, linked, pages, sec_id, chaperon, chapFile,
                   depth, nest, chaperoned, session, jop, drv, cur, pend>>
    /\ UNCHANGED xvars

----------------------------------------------------------------------------
\* Journal::clear (pin_journals off).

\* Entering Journal::clear.
JClearEnter ==
    /\ pc = "clr"
    /\ pc' = "clr_pages"
    /\ jop' = "clear"
    /\ h' = IF drv = "recover" THEN h ELSE HCall("clear")
    /\ UNCHANGED <<pvars, depth, nest, chaperoned, session, drv, cur, pend>>
    /\ UNCHANGED xvars

\* Page::clear of the newest page, one record: logs[head].clear(), head += 1.
JClearLog ==
    /\ pc = "clr_pages"
    /\ pages # <<>>
    /\ pages[1].head < pages[1].len
    /\ pages' = [pages EXCEPT ![1] =
                    [@ EXCEPT !.logs[pages[1].head + 1] = LogClear(@),
                              !.head = @ + 1]]
    /\ UNCHANGED <<mem, linked, flags, sec_id, chaperon, chapFile,
                   pc, depth, nest, chaperoned, session, jop, drv, cur, pend, h>>
    /\ UNCHANGED xvars

\* pre_dealloc of the cleared page, log64 of the head to its next, perform:
\* one atomic step of the allocator.
JDeallocPage ==
    /\ pc = "clr_pages"
    /\ pages # <<>>
    /\ pages[1].head >= pages[1].len
    /\ pages' = Tail(pages)
    /\ UNCHANGED <<mem, linked, flags, sec_id, chaperon, chapFile,
                   pc, depth, nest, chaperoned, session, jop, drv, cur, pend, h>>
    /\ UNCHANGED xvars

\* Journal::complete: a chaperoned journal is detached (path freed,
\* sec_id = 0) and its section finished on the chaperone, which deletes its
\* file once its sections are finished.  The list links of clear precede it;
\* this journal has no neighbours.
JComplete ==
    /\ pc = "clr_pages"
    /\ pages = <<>>
    /\ IF sec_id # 0 /\ chaperon # ""
       THEN /\ sec_id' = 0
            /\ chaperon' = ""
            /\ chapFile' = "none"
       ELSE UNCHANGED <<sec_id, chaperon, chapFile>>
    /\ pc' = "clr_drop"
    /\ UNCHANGED <<mem, linked, pages, flags,
                   depth, nest, chaperoned, session, jop, drv, cur, pend, h>>
    /\ UNCHANGED xvars

\* drop_journal: the journal is unlinked from the pool and deallocated, and
\* clear returns; its caller returns in turn.
JDrop ==
    /\ pc = "clr_drop"
    /\ linked' = FALSE
    /\ flags' = 0
    /\ jop' = "none"
    /\ drv' = "none"
    /\ pc' = "idle"
    /\ depth' = 0
    /\ chaperoned' = FALSE
    /\ session' = FALSE
    /\ h' = IF drv = "tx_ok"
            THEN [h EXCEPT !.res = "Ok", !.resVal = h.ret, !.ev = "returned",
                           !.returned = IF h.panicked THEN @ \cup {depth} ELSE @]
            ELSE IF drv = "tx_err"
            THEN [h EXCEPT !.res = "Unsuccessful transaction", !.ev = "returned",
                           !.returned = IF h.panicked THEN @ \cup {depth} ELSE @]
            ELSE IF drv = "recover"
            THEN [h EXCEPT !.ev = "recovered"]
            ELSE [h EXCEPT !.ev = "returned"]
    /\ UNCHANGED <<mem, pages, sec_id, chaperon, chapFile, nest, cur, pend>>
    /\ UNCHANGED xvars

----------------------------------------------------------------------------
\* The chaperone session around a chaperoned transaction (specification 4.6).

\* transaction_across: a chaperone file is created and installed.
SessionBegin ==
    /\ pc = "idle" /\ ~session
    /\ session' = TRUE
    /\ chapFile' = "open"
    /\ pc' = "sess"
    /\ h' = [HInit EXCEPT !.pre = mem, !.chapTx = TRUE]
    /\ UNCHANGED <<mem, linked, pages, flags, sec_id, chaperon,
                   depth, nest, chaperoned, jop, drv, cur, pend>>
    /\ UNCHANGED xvars

\* The postponed commit callback, MemPool::commit_no_clear: Journal.commit
\* when the counter is 1.
ChapCommit ==
    /\ pc = "sess_ok"
    /\ IF nest = 1
       THEN EnterJournal("commit", "chap_commit") /\ h' = HCall("commit")
       ELSE pc' = "sess_committed" /\ UNCHANGED <<jop, drv, cur, h>>
    /\ UNCHANGED <<pvars, depth, nest, chaperoned, session, pend>>
    /\ UNCHANGED xvars

\* The postponed rollback callback, MemPool::rollback_no_clear.
ChapRollback ==
    /\ pc = "sess_err"
    /\ nest = 1
    /\ EnterJournal("rollback", "chap_rollback")
    /\ h' = HCall("rollback")
    /\ UNCHANGED <<pvars, depth, nest, chaperoned, session, pend>>
    /\ UNCHANGED xvars

\* Every section has committed: the chaperone marks itself complete.
ChapMarkComplete ==
    /\ pc = "sess_committed"
    /\ chapFile' = "complete"
    /\ pc' = "sess_complete"
    /\ UNCHANGED <<mem, linked, pages, flags, sec_id, chaperon,
                   depth, nest, chaperoned, session, jop, drv, cur, pend, h>>
    /\ UNCHANGED xvars

\* The postponed clear callback, MemPool::clear: the counter is decremented
\* and Journal.clear runs when it reaches 0.
ChapClear ==
    /\ pc \in {"sess_complete", "sess_rolled"}
    /\ nest' = nest - 1
    /\ IF nest - 1 = 0
       THEN pc' = "clr" /\ drv' = "chap_clear"
       ELSE pc' = "idle" /\ drv' = "none"
    /\ UNCHANGED <<pvars, depth, chaperoned, session, jop, cur, pend, h>>
    /\ UNCHANGED xvars

----------------------------------------------------------------------------
\* Crash and recovery (specification 4.7).

\* What the journal found at a crash is: for the observations only.
RecKind ==
    IF ~linked THEN "nojournal"
    ELSE IF ~is_set(flags, JOURNAL_COMMITTED) THEN "uncommitted"
    ELSE IF sec_id # 0 /\ chaperon # ""
         THEN (IF chapFile = "complete" THEN "chap_complete" ELSE "chap_incomplete")
         ELSE "committed"

\* The persistent state of the pool.
PState ==
    [mem |-> mem, linked |-> linked, pages |-> pages, flags |-> flags,
     sec_id |-> sec_id, chaperon |-> chaperon, chapFile |-> chapFile]

\* Page::recover(true) as one step: the records of a page from the last to
\* the first.
RECURSIVE RollbackPage(_, _, _)
RollbackPage(m, page, k) ==
    IF k = 0 THEN m
    ELSE RollbackPage(LogRollbackMem(m, page.logs[k]), page, k - 1)

\* The recover loop of Journal::recover as one step: the pages from the
\* newest on.
RECURSIVE RollbackPages(_, _, _)
RollbackPages(m, pgs, p) ==
    IF p > Len(pgs) THEN m
    ELSE RollbackPages(RollbackPage(m, pgs[p], pgs[p].len), pgs, p + 1)

\* An uninterrupted recovery run on the pool S, as one step: Journal::recover
\* then Journal::clear of the linked journal.  A run that panics in
\* fast_forward leaves the pool as it is, its pages notified.
RecoverRun(S) ==
    IF ~S.linked THEN S
    ELSE LET ff == fast_forward_of(S.flags, S.sec_id, S.chaperon, S.chapFile)
             committed == is_set(S.flags, JOURNAL_COMMITTED)
             attached == S.sec_id # 0 /\ S.chaperon # ""
         IN IF ff = "panic"
            THEN [S EXCEPT !.pages =
                     [p \in 1..Len(S.pages) |-> notify(S.pages[p])]]
            ELSE [mem |-> IF (~committed \/ ff = "yes") /\ (ff # "yes" \/ ~committed)
                          THEN RollbackPages(S.mem, S.pages, 1)
                          ELSE S.mem,
                  linked |-> FALSE,
                  pages |-> <<>>,
                  flags |-> 0,
                  sec_id |-> IF attached THEN 0 ELSE S.sec_id,
                  chaperon |-> IF attached THEN "" ELSE S.chaperon,
                  chapFile |-> IF attached THEN "none" ELSE S.chapFile]

\* The process is killed: the volatile state is lost.  Of the observations,
\* those about the transaction's images and the journal found are kept.
Crash ==
    /\ pc \notin {"idle", "crashed"}
    /\ pc' = "crashed"
    /\ depth' = 0
    /\ nest' = 0
    /\ chaperoned' = FALSE
    /\ session' = FALSE
    /\ jop' = "none"
    /\ drv' = "none"
    /\ cur' = Cur0
    /\ pend' = NoPend
    /\ h' = [HInit EXCEPT !.pre = h.pre, !.post = h.post,
                          !.bodyDone = h.bodyDone, !.committedAt = h.committedAt,
                          !.chapTx = h.chapTx,
                          !.ev = "crashed", !.recOf = RecKind,
                          !.recFirst = IF drv = "recover" THEN h.recFirst ELSE RecKind,
                          !.recRuns = IF drv = "recover" THEN h.recRuns ELSE 0,
                          !.recTarget = IF drv = "recover" THEN h.recTarget
                                        ELSE RecoverRun(PState)]
    /\ UNCHANGED pvars
    /\ UNCHANGED xvars

\* The pool is opened again: the journal, if one is linked, is recovered
\* (Journal.recover) and then cleared.
Reopen ==
    /\ pc = "crashed"
    /\ IF linked
       THEN /\ EnterJournal("recover", "recover")
            /\ h' = [h EXCEPT !.recRuns = IF @ < 2 THEN @ + 1 ELSE @]
       ELSE /\ pc' = "idle"
            /\ h' = [h EXCEPT !.ev = "recovered"]
            /\ UNCHANGED <<jop, drv, cur>>
    /\ UNCHANGED <<pvars, depth, nest, chaperoned, session, pend>>
    /\ UNCHANGED xvars

Next ==
    \/ Begin
    \/ BeginChaperoned
    \/ \E l \in Locs, v \in Vals : LogWrite(l, v)
    \/ Store
    \/ BodyPanic
    \/ BodyReturn
    \/ TxCommitOuter
    \/ TxCommitInner
    \/ TxRollbackOuter
    \/ TxRollbackInner
    \/ TxReturnChaperoned
    \/ TxPanicChaperoned
    \/ JNotifyPage
    \/ JNotifyDone
    \/ JRecoverDecide
    \/ JApplyLog
    \/ JApplyDone
    \/ JSetFlag
    \/ JClearEnter
    \/ JClearLog
    \/ JDeallocPage
    \/ JComplete
    \/ JDrop
    \/ SessionBegin
    \/ ChapCommit
    \/ ChapRollback
    \/ ChapMarkComplete
    \/ ChapClear
    \/ Crash
    \/ Reopen

Spec == Init /\ [][Next]_vars

----------------------------------------------------------------------------
\* Claims.

\* A recovery run has completed.
Recovered == pc = "idle" /\ h.ev = "recovered"

\* The outermost transaction() has returned to its caller.
Returned == pc = "idle" /\ h.ev = "returned"

\* The observations are those of a running or returned transaction that is
\* not chaperoned (a crash resets them).
Plain == ~h.chapTx /\ h.ev \in {"none", "returned"} /\ (depth > 0 \/ Returned)

\* Ids of the records in the journal's pages.
PageIds(pgs) ==
    UNION {{pgs[p].logs[k].id : k \in 1..Len(pgs[p].logs)} : p \in 1..Len(pgs)}

\* Some location has more than one record in the journal.
LoggedTwice(pgs) ==
    \E p, q \in 1..Len(pgs) : \E k \in 1..Len(pgs[p].logs), j \in 1..Len(pgs[q].logs) :
        pgs[p].logs[k].id # pgs[q].logs[j].id /\ pgs[p].logs[k].off = pgs[q].logs[j].off

\* C1 (I1, atomicity under crashes): once recovery has completed after a
\* crash at any step of a transaction (its body, Journal.commit,
\* Journal.rollback, Journal.clear) or of a recovery run, the user data equals
\* the transaction's pre-state or its complete post-state.  Stated for the
\* transactions that run outside a chaperone session.
C1_Atomic ==
    (Recovered /\ ~h.chapTx) => (mem = h.pre \/ (h.bodyDone /\ mem = h.post))

\* C2 (I2, isolation of failure): when the body panicked, then once
\* transaction() has returned Err the user data equals its value before the
\* transaction's first write, whatever was logged (a location several times,
\* records over several pages).
C2_PanicRestores ==
    (Returned /\ ~h.chapTx /\ h.panicked) => mem = h.pre

\* C3: when the body of an outermost transaction that is not chaperoned
\* returns normally, the driver enters Journal.commit and then Journal.clear,
\* once each and in that order, and transaction() returns Ok with the body's
\* value and the body's writes in place.
C3_CommitThenClear ==
    (Plain /\ h.bodyDone) =>
        /\ h.calls \in {<<>>, <<"commit">>, <<"commit", "clear">>}
        /\ Returned =>
              /\ h.calls = <<"commit", "clear">>
              /\ h.res = "Ok"
              /\ h.resVal = h.ret
              /\ h.ret = h.post["root"]
              /\ mem = h.post

\* C3's case: a body that set the root to old + 1 and returned it.
C3_Witness ==
    /\ Returned /\ ~h.chapTx /\ h.bodyDone
    /\ h.nlogs >= 1
    /\ h.resVal = h.pre["root"] + 1
    /\ mem["root"] = h.pre["root"] + 1

\* C4: when the body of an outermost transaction that is not chaperoned
\* panics, the panic does not leave transaction(): the driver enters
\* Journal.rollback and then Journal.clear, once each and in that order, and
\* transaction() returns Err("Unsuccessful transaction").
C4_RollbackThenClear ==
    (Plain /\ h.panicked) =>
        /\ 1 \notin h.unwound
        /\ h.calls \in {<<>>, <<"rollback">>, <<"rollback", "clear">>}
        /\ Returned =>
              /\ h.calls = <<"rollback", "clear">>
              /\ h.res = "Unsuccessful transaction"
              /\ 1 \in h.returned

\* C4's case: the outermost body wrote and panicked, transaction() returned.
C4_Witness ==
    /\ Returned /\ ~h.chapTx
    /\ h.panicked /\ h.panicDepth = 1
    /\ h.nlogs >= 1
    /\ h.res = "Unsuccessful transaction"

\* C5 (durability round trip): after Journal.commit has completed for a
\* transaction that is not chaperoned, a crash and the recovery run of the
\* reopened pool never apply a rollback to its records, and the user data is
\* the transaction's post-state all along and when recovery has completed.
C5_CommittedSurvives ==
    (h.ev \in {"crashed", "recovered"} /\ h.committedAt /\ ~h.chapTx) =>
        /\ mem = h.post
        /\ h.rbCalls = {}

\* C5's case: the crash fell into Journal.clear of a committed journal that
\* still had records, recovery has completed, the writes are there.
C5_Witness ==
    /\ Recovered /\ h.committedAt /\ ~h.chapTx
    /\ h.recOf = "committed"
    /\ mem # h.pre
    /\ mem = h.post

\* C6 (I6, nesting): Journal.commit is entered only if no frame of the nest
\* panicked and the outermost body returned; a nest whose frames all returned
\* normally has committed when it returns; in a nest with a panicked frame
\* Journal.rollback is entered instead, Journal.commit never, and no record
\* of the nest is ever committed.
C6_Nesting ==
    Plain =>
        /\ "commit" \in Range(h.calls) => (~h.panicked /\ h.bodyDone)
        /\ (Returned /\ ~h.panicked) => (h.bodyDone /\ "commit" \in Range(h.calls))
        /\ h.panicked =>
              /\ "commit" \notin Range(h.calls)
              /\ ~h.committedAt
              /\ \A p \in 1..Len(pages) : \A k \in 1..Len(pages[p].logs) :
                    pages[p].logs[k].st # "Committed"
              /\ Returned => "rollback" \in Range(h.calls)

\* C6's case: a nest whose inner frame panicked after both frames wrote.
C6_Witness ==
    /\ Returned /\ ~h.chapTx
    /\ h.panicDepth >= 2
    /\ h.nlogs >= 2
    /\ h.calls = <<"rollback", "clear">>

\* C7 (tainted propagation): after the body of a frame at depth d > 1
\* panicked, no body of the nest executes another statement, every frame
\* from d down to 2 is left by a panic, no Journal method is entered below
\* an active enclosing frame, and only the outermost transaction() returns,
\* with Err("Unsuccessful transaction").
C7_Tainted ==
    (Plain /\ h.panicDepth > 1) =>
        /\ ~h.stmtAfterPanic
        /\ ~h.innerOp
        /\ h.returned \subseteq {1}
        /\ h.unwound \subseteq 2..h.panicDepth
        /\ (depth >= 1 /\ depth < h.panicDepth) => h.unwound = (depth + 1)..h.panicDepth
        /\ Returned =>
              /\ h.unwound = 2..h.panicDepth
              /\ h.returned = {1}
              /\ h.res = "Unsuccessful transaction"
              /\ h.calls = <<"rollback", "clear">>

\* C7's case: a panic at depth 3, propagated through depth 2 to the outermost.
C7_Witness ==
    /\ Returned /\ ~h.chapTx
    /\ h.panicDepth = 3
    /\ h.unwound = {2, 3}
    /\ h.returned = {1}

\* C8 (only the outermost frame transitions the journal): while a frame has
\* an enclosing frame (nesting counter above 1) no Journal method runs or
\* has run, and the journal is not COMMITTED; Journal.commit, Journal.rollback
\* and Journal.clear called by the driver run in the outermost frame with
\* the counter at 0.
C8_State ==
    ~h.chapTx =>
        /\ (depth >= 2 \/ nest >= 2) =>
              /\ pc \in {"body", "store", "ret_ok", "ret_err"}
              /\ jop = "none"
              /\ ~is_set(flags, JOURNAL_COMMITTED)
              /\ h.calls = <<>>
        /\ (drv \in {"tx_ok", "tx_err"}) => (depth = 1 /\ nest = 0)
        /\ ~h.innerOp

\* C8, the step of a normally returning inner frame: it decrements the
\* counter and changes nothing of the journal or of the user data.
C8_Step ==
    (pc = "ret_ok" /\ ~chaperoned /\ nest > 1 /\ pc' # "crashed") =>
        /\ nest' = nest - 1
        /\ pc' = "body"
        /\ jop' = "none"
        /\ UNCHANGED pvars

C8_OnlyOutermost == []C8_State /\ [][C8_Step]_vars

\* C8's case: an inner frame has written and returned normally, and the
\* enclosing body runs on with the journal untouched.
C8_Witness ==
    /\ ~h.chapTx /\ h.innerRet
    /\ pc = "body" /\ depth = 1 /\ nest = 1
    /\ pages # <<>>
    /\ flags = 0

\* C9 (recovery idempotence, I5): a recovery run on a pool that a recovery
\* run has left changes nothing; and from the crash on, however often the
\* recovery is interrupted and restarted, an uninterrupted run on the pool
\* as it is would leave the pool the first uninterrupted run would have
\* left, which is the pool the recovery ends with.
C9_RecoveryIdempotent ==
    /\ RecoverRun(RecoverRun(PState)) = RecoverRun(PState)
    /\ (pc = "crashed" \/ drv = "recover") => RecoverRun(PState) = h.recTarget
    /\ Recovered => PState = h.recTarget

\* C9's case: the first run rolled the journal back and marked it COMMITTED,
\* was interrupted, and the second run (fast-forwarding) has completed.
C9_Witness ==
    /\ Recovered
    /\ h.recRuns = 2
    /\ h.recFirst = "uncommitted" /\ h.recOf = "committed"
    /\ h.rbCalls = {}
    /\ mem = h.pre /\ mem # h.post

\* C10 (recovery table, row COMMITTED / chaperoned / not complete): when
\* Journal.recover has returned for such a journal, the rollback action has
\* been applied to every record of every page of it.
C10_IncompleteRolledBack ==
    (pc = "clr" /\ drv = "recover" /\ h.recOf = "chap_incomplete"
        /\ h.committedAt) =>
        h.rbCalls = PageIds(pages)

----------------------------------------------------------------------------
\* Journal::fast_forward called on a journal with any flag word, section id,
\* chaperone path and chaperone file.

MaxSecId == 2
FlagWords == 0..3                      \* COMMITTED and one more bit
ChapPaths == {"", "c1.pool", "c2.pool"}
ChapFiles == {"none", "open", "complete"}

InitFF ==
    /\ mem = [l \in Locs |-> 0]
    /\ linked = TRUE
    /\ pages = <<>>
    /\ flags \in FlagWords
    /\ sec_id \in 0..MaxSecId
    /\ chaperon \in ChapPaths
    /\ chapFile \in ChapFiles
    /\ pc = "idle"
    /\ depth = 0
    /\ nest = 0
    /\ chaperoned = FALSE
    /\ session = FALSE
    /\ jop = "none"
    /\ drv = "none"
    /\ cur = Cur0
    /\ pend = NoPend
    /\ h = HInit
    /\ arg = [op |-> "fast_forward"]
    /\ ret = NoRet
    /\ heap = Heap0
    /\ jl = Jl0
    /\ pfile = NoFile

\* The call: what fast_forward returns ("panic": the expect() on the load of
\* the chaperone file fails).
FastForwardCall ==
    /\ arg.op = "fast_forward"
    /\ ret = NoRet
    /\ ret' = [kind |-> "fast_forward", val |-> fast_forward]
    /\ UNCHANGED besideFF

NextFF == FastForwardCall

SpecFF == InitFF /\ [][NextFF]_vars

\* C11 (fast-forward table): fast_forward returns true exactly when the
\* journal is COMMITTED and either is not chaperoned (sec_id = 0 or empty
\* path) or its chaperone reports complete; for an uncommitted journal it
\* returns false whatever the chaperone is, a missing chaperone file included.
C11_FastForwardTable ==
    (ret.kind = "fast_forward") =>
        LET committed == flags % 2 = 1
            attached == ~(sec_id = 0 \/ chaperon = "")
        IN /\ (ret.val = "yes") <=>
                  (committed /\ (~attached \/ chapFile = "complete"))
           /\ ~committed => ret.val = "no"
           /\ (ret.val = "no" /\ committed) => (attached /\ chapFile = "open")

\* C11's case: the row COMMITTED / chaperoned / not complete has been
\* evaluated.
C11_Witness ==
    /\ ret.kind = "fast_forward" /\ ret.val = "no"
    /\ flags % 2 = 1 /\ sec_id # 0 /\ chaperon # "" /\ chapFile = "open"

----------------------------------------------------------------------------
\* MemPool::alloc: pre_alloc, drop_on_failure, perform, with crashes and the
\* recovery of the zone (specification 3 "Memory zone", 4.1 and 4.7 step 4).

MaxAllocSize == 2

Units(b) == b.off .. (b.off + b.len - 1)

\* The units taken by allocated blocks and by blocks a staged update takes.
Taken(hp) ==
    UNION ({Units(b) : b \in hp.alloc}
           \cup {Units(hp.staged[k]) : k \in {j \in DOMAIN hp.staged :
                                                hp.staged[j].k = "take"}})

Fits(hp, off, len) ==
    /\ off + len <= HeapUnits
    /\ (off .. (off + len - 1)) \cap Taken(hp) = {}

CanFit(hp, len) == \E off \in 0..(HeapUnits - 1) : Fits(hp, off, len)

\* The block pre_alloc picks: the lowest one that fits.
FirstFit(hp, len) ==
    CHOOSE off \in 0..(HeapUnits - 1) :
        /\ Fits(hp, off, len)
        /\ \A o \in 0..(off - 1) : ~Fits(hp, o, len)

\* pre_alloc: the metadata updates of the allocation are staged in the zone.
pre_alloc(hp, off, len) ==
    [hp EXCEPT !.staged = @ \o <<[k |-> "take", off |-> off, len |-> len],
                                 [k |-> "avail", off |-> off, len |-> len]>>]

\* drop_on_failure: a DropOnFailure record for the block is staged in the zone.
drop_on_failure(hp, off, len) ==
    [hp EXCEPT !.dof = @ \cup {[off |-> off, len |-> len]}]

\* One staged update materialized.
Materialize(hp) ==
    LET u == Head(hp.staged)
    IN IF u.k = "take"
       THEN [hp EXCEPT !.alloc = @ \cup {[off |-> u.off, len |-> u.len]},
                       !.staged = Tail(@)]
       ELSE [hp EXCEPT !.avail = @ - u.len, !.staged = Tail(@)]

\* A DropOnFailure record honoured: its block, if allocated, is freed.
Reclaim(hp, d) ==
    IF d \in hp.alloc
    THEN [hp EXCEPT !.alloc = @ \ {d}, !.avail = @ + d.len, !.dof = @ \ {d}]
    ELSE [hp EXCEPT !.dof = @ \ {d}]

InitAlloc ==
    /\ TInit
    /\ arg = [op |-> "idle", before |-> HeapUnits, blk |-> [off |-> 0, len |-> 0],
              reclaimed |-> FALSE]
    /\ ret = NoRet
    /\ heap = Heap0
    /\ jl = Jl0
    /\ pfile = NoFile

\* alloc(size), line 1: pre_alloc.  A null block is returned by an
\* exhausted pool.
AllocPreAlloc(size) ==
    /\ arg.op \in {"idle", "returned", "recovered", "null"}
    /\ IF CanFit(heap, size)
       THEN LET off == FirstFit(heap, size)
            IN /\ heap' = pre_alloc(heap, off, size)
               /\ arg' = [op |-> "prepared", before |-> heap.avail,
                          blk |-> [off |-> off, len |-> size],
                          reclaimed |-> FALSE]
               /\ ret' = NoRet
       ELSE /\ arg' = [op |-> "null", before |-> heap.avail,
                       blk |-> [off |-> 0, len |-> 0], reclaimed |-> FALSE]
            /\ ret' = [kind |-> "alloc_null"]
            /\ heap' = heap
    /\ UNCHANGED besideAlloc

\* Mutant of AllocDropOnFailure: alloc goes from pre_alloc to perform without
\* a DropOnFailure record.
AllocDropOnFailure_Skipped ==
    /\ arg.op = "prepared"
    /\ arg' = [arg EXCEPT !.op = "logged"]
    /\ UNCHANGED <<besideAlloc, ret, heap>>

\* alloc(size), line 2: drop_on_failure(off, len, z).
AllocDropOnFailure ==
    /\ arg.op = "prepared"
    /\ heap' = drop_on_failure(heap, arg.blk.off, arg.blk.len)
    /\ arg' = [arg EXCEPT !.op = "logged"]
    /\ UNCHANGED <<besideAlloc, ret>>

\* alloc(size), line 3, perform(z): the operating flag is set.
PerformBegin ==
    /\ arg.op = "logged"
    /\ heap' = [heap EXCEPT !.operating = TRUE]
    /\ arg' = [arg EXCEPT !.op = "performing"]
    /\ UNCHANGED <<besideAlloc, ret>>

\* perform(z): one staged update is materialized.
PerformStep ==
    /\ arg.op = "performing"
    /\ heap.staged # <<>>
    /\ heap' = Materialize(heap)
    /\ UNCHANGED <<besideAlloc, arg, ret>>

\* perform(z) ends: the zone's records are dropped with the operating flag,
\* and alloc returns the block.
PerformEnd ==
    /\ arg.op = "performing"
    /\ heap.staged = <<>>
    /\ heap' = [heap EXCEPT !.dof = {}, !.operating = FALSE]
    /\ arg' = [arg EXCEPT !.op = "returned"]
    /\ ret' = [kind |-> "alloc", off |-> arg.blk.off, len |-> arg.blk.len]
    /\ UNCHANGED besideAlloc

\* The process is killed inside alloc or inside the recovery.
AllocCrash ==
    /\ arg.op \in {"prepared", "logged", "performing", "recovering"}
    /\ arg' = [arg EXCEPT !.op = "crashed"]
    /\ ret' = NoRet
    /\ UNCHANGED <<besideAlloc, heap>>

\* Recovery of the zone begins: staged updates of a zone that is not
\* operating are discarded.
ZoneRecoverBegin ==
    /\ arg.op = "crashed"
    /\ heap' = IF heap.operating THEN heap ELSE [heap EXCEPT !.staged = <<>>]
    /\ arg' = [arg EXCEPT !.op = "recovering"]
    /\ UNCHANGED <<besideAlloc, ret>>

\* Recovery of an operating zone: the materialization is continued.
ZoneRecoverStep ==
    /\ arg.op = "recovering"
    /\ heap.staged # <<>>
    /\ heap' = Materialize(heap)
    /\ UNCHANGED <<besideAlloc, arg, ret>>

\* Recovery: a DropOnFailure record is honoured.
ZoneRecoverReclaim ==
    /\ arg.op = "recovering"
    /\ heap.staged = <<>>
    /\ \E d \in heap.dof :
          /\ heap' = Reclaim(heap, d)
          /\ arg' = [arg EXCEPT !.reclaimed = @ \/ d \in heap.alloc]
    /\ UNCHANGED <<besideAlloc, ret>>

\* Recovery of the zone ends.
ZoneRecoverEnd ==
    /\ arg.op = "recovering"
    /\ heap.staged = <<>> /\ heap.dof = {}
    /\ heap' = [heap EXCEPT !.operating = FALSE]
    /\ arg' = [arg EXCEPT !.op = "recovered"]
    /\ UNCHANGED <<besideAlloc, ret>>

NextAlloc ==
    \/ \E size \in 1..MaxAllocSize : AllocPreAlloc(size)
    \/ AllocDropOnFailure
    \/ PerformBegin
    \/ PerformStep
    \/ PerformEnd
    \/ AllocCrash
    \/ ZoneRecoverBegin
    \/ ZoneRecoverStep
    \/ ZoneRecoverReclaim
    \/ ZoneRecoverEnd

SpecAlloc == InitAlloc /\ [][NextAlloc]_vars

\* The units of the allocated blocks.
UsedUnits(hp) == Cardinality(UNION {Units(b) : b \in hp.alloc})

\* C12 (linearity of allocation, I3): when alloc has returned without a
\* crash, its block is allocated, available() is less by the block's length
\* than before pre_alloc, and nothing is left staged; when the process was
\* killed after pre_alloc and before perform ended, the recovery leaves the
\* block free and available() at its value before pre_alloc.
C12_Linear ==
    /\ (arg.op = "returned") =>
          /\ ret.kind = "alloc"
          /\ arg.blk \in heap.alloc
          /\ heap.avail = arg.before - arg.blk.len
          /\ heap.staged = <<>> /\ heap.dof = {} /\ ~heap.operating
    /\ (arg.op = "recovered") =>
          /\ arg.blk \notin heap.alloc
          /\ heap.avail = arg.before
          /\ heap.staged = <<>> /\ heap.dof = {} /\ ~heap.operating
    /\ (arg.op \in {"returned", "recovered"}) =>
          heap.avail = HeapUnits - UsedUnits(heap)

\* C12's case: an allocation was killed inside perform, after its block was
\* taken, and the recovery has reclaimed the block in a pool that holds an
\* earlier allocation.
C12_Witness ==
    /\ arg.op = "recovered"
    /\ arg.reclaimed
    /\ arg.blk.len = 2
    /\ heap.alloc # {}
    /\ heap.avail = arg.before /\ heap.avail < HeapUnits

----------------------------------------------------------------------------
\* The pool's list of journals: Journal::enter_into at the creation of a
\* journal, the unlinking of Journal::clear, crashes and the recovery's walk.
\* The pool's guard (A::guarded) lets one creation or clear run at a time.
\* new_journal, drop_journal and the walk follow specification 4.4 and 4.7;
\* a perform applies its zone's staged updates in one step.

\* A::allocated at a journal's offset, as deref_mut asks it.
JAllocated(off) == off # NoOff /\ jl.j[off].alloc

\* The journals reached from the header by next_off in at most n hops.
RECURSIVE ReachFrom(_, _)
ReachFrom(off, n) ==
    IF off = NoOff \/ n = 0 THEN {}
    ELSE {off} \cup ReachFrom(jl.j[off].next, n - 1)

Reachable == ReachFrom(jl.head, MaxJournals)

\* The journals created (their allocation performed) and not yet dropped.
Uncleared == {i \in JIds : jl.j[i].alloc}

InitLink == TInit /\ XInit

\* new_journal(tid): atomic_new(Journal::new()) stages the allocation.
LinkNew(t) ==
    /\ jl.mode = "run" /\ jl.op = NoOp
    /\ t \notin jl.own /\ ~jl.j[t].alloc
    /\ jl' = [jl EXCEPT !.j[t] = [alloc |-> FALSE, next |-> NoOff, prev |-> NoOff],
                        !.op = [t |-> t, step |-> "enter_next"]]
    /\ UNCHANGED besideLink

\* Mutant of LinkEnterNext: the head is stored at once instead of staged.
LinkEnterNext_HeadStored ==
    /\ jl.op.step = "enter_next"
    /\ jl' = [jl EXCEPT !.j[jl.op.t].next = jl.head,
                        !.head = jl.op.t,
                        !.op.step = "enter_prev"]
    /\ UNCHANGED besideLink

\* enter_into: self.next_off = *head_off.
LinkEnterNext ==
    /\ jl.op.step = "enter_next"
    /\ jl' = [jl EXCEPT !.j[jl.op.t].next = jl.head,
                        !.op.step = "enter_prev"]
    /\ UNCHANGED besideLink

\* enter_into: log64(head, me) is staged, and the next journal, if there is
\* one, gets prev_off = me by a plain store.
LinkEnterPrev ==
    /\ jl.op.step = "enter_prev"
    /\ LET me == jl.op.t
           nxt == jl.j[me].next
       IN jl' = IF JAllocated(nxt)
                THEN [jl EXCEPT !.j[nxt].prev = me, !.op.step = "perform"]
                ELSE [jl EXCEPT !.op.step = "perform"]
    /\ UNCHANGED besideLink

\* perform(z): the journal's allocation and head = me become durable
\* together; the thread's journal is registered.
LinkPerform ==
    /\ jl.op.step = "perform"
    /\ LET me == jl.op.t
       IN jl' = [jl EXCEPT !.j[me].alloc = TRUE,
                           !.head = me,
                           !.own = @ \cup {me},
                           !.op = NoOp]
    /\ UNCHANGED besideLink

\* Journal::clear is entered, by the journal's thread or by the recovery for
\* the journal at the head of the list.  The model's journals hold no pages.
LinkClear(t) ==
    /\ jl.op = NoOp
    /\ \/ jl.mode = "run" /\ t \in jl.own
       \/ jl.mode = "recover" /\ t = jl.head
    /\ jl' = [jl EXCEPT !.op = [t |-> t, step |-> "clr_prev"]]
    /\ UNCHANGED besideLink

\* clear: if let Ok(prev) = deref_mut(self.prev_off) { prev.next_off =
\* self.next_off }.
LinkClearPrev ==
    /\ jl.op.step = "clr_prev"
    /\ LET me == jl.op.t
           prv == jl.j[me].prev
       IN jl' = IF JAllocated(prv)
                THEN [jl EXCEPT !.j[prv].next = jl.j[me].next,
                                !.op.step = "clr_next"]
                ELSE [jl EXCEPT !.op.step = "clr_next"]
    /\ UNCHANGED besideLink

\* clear: if let Ok(next) = deref_mut(self.next_off) { next.prev_off =
\* self.prev_off }; complete() finds no chaperone.
LinkClearNext ==
    /\ jl.op.step = "clr_next"
    /\ LET me == jl.op.t
           nxt == jl.j[me].next
       IN jl' = IF JAllocated(nxt)
                THEN [jl EXCEPT !.j[nxt].prev = jl.j[me].prev,
                                !.op.step = "clr_drop"]
                ELSE [jl EXCEPT !.op.step = "clr_drop"]
    /\ UNCHANGED besideLink

\* drop_journal: the journal is deallocated and, when it is the head, the
\* head moves to its next, in one perform; clear has completed.
LinkDrop ==
    /\ jl.op.step = "clr_drop"
    /\ LET me == jl.op.t
       IN jl' = [jl EXCEPT !.j[me].alloc = FALSE,
                           !.head = IF @ = me THEN jl.j[me].next ELSE @,
                           !.own = @ \ {me},
                           !.op = NoOp,
                           !.mode = IF jl.mode = "recover"
                                       /\ jl.head = me /\ jl.j[me].next = NoOff
                                    THEN "run" ELSE @,
                           !.crashIn = IF jl.mode = "recover"
                                          /\ jl.head = me /\ jl.j[me].next = NoOff
                                       THEN "none" ELSE @]
    /\ UNCHANGED besideLink

\* The process is killed: the threads, their journals() map and what a zone
\* had staged are gone.
LinkCrash ==
    /\ jl.mode \in {"run", "recover"}
    /\ jl' = [jl EXCEPT !.own = {}, !.op = NoOp, !.mode = "crashed",
                        !.crashIn = IF jl.mode = "run" THEN jl.op.step ELSE "recovery"]
    /\ UNCHANGED besideLink

\* The pool is opened: the recovery walks the list from the head and clears
\* the journals it finds (LinkClear in "recover" mode).
LinkReopen ==
    /\ jl.mode = "crashed"
    /\ jl' = IF jl.head = NoOff
             THEN [jl EXCEPT !.mode = "run", !.crashIn = "none"]
             ELSE [jl EXCEPT !.mode = "recover"]
    /\ UNCHANGED besideLink

NextLink ==
    \/ \E t \in JIds : LinkNew(t)
    \/ LinkEnterNext
    \/ LinkEnterPrev
    \/ LinkPerform
    \/ \E t \in JIds : LinkClear(t)
    \/ LinkClearPrev
    \/ LinkClearNext
    \/ LinkDrop
    \/ LinkCrash
    \/ LinkReopen

SpecLink == InitLink /\ [][NextLink]_vars

\* C13 (journal linkage, I4): after a crash, the journals reachable from the
\* header by next_off are exactly the journals whose clear has not completed.
C13_Linkage ==
    (jl.mode = "crashed") => Reachable = Uncleared

----------------------------------------------------------------------------
\* Page overflow: one transaction whose body makes OvMaxWrites logged
\* writes, to a cell each or all to one cell, and then panics; the pages
\* hold PAGE_SIZE records.

OvMaxWrites == 200

InitOverflow ==
    /\ mem = [l \in 1..OvMaxWrites |-> 0]
    /\ JInit
    /\ arg \in {[op |-> "overflow", cells |-> c] : c \in {"distinct", "same"}}
    /\ ret = NoRet /\ heap = Heap0 /\ jl = Jl0 /\ pfile = NoFile

\* The transaction of the run: not nested, the only one.
OvBegin == Begin /\ depth = 0 /\ h.ev = "none"

\* The k-th logged write of the body stores 1 to cell k (or to cell 1).
OvLogWrite ==
    /\ pc = "body"
    /\ h.nlogs < OvMaxWrites
    /\ LET l == IF arg.cells = "distinct" THEN h.nlogs + 1 ELSE 1
       IN /\ pages' = journal_write(pages,
                         NewLog(h.nlogs + 1, l, mem[l]))
          /\ pend' = [loc |-> l, val |-> 1]
    /\ pc' = "store"
    /\ h' = [h EXCEPT !.nlogs = @ + 1]
    /\ UNCHANGED <<mem, linked, flags, sec_id, chaperon, chapFile,
                   depth, nest, chaperoned, session, jop, drv, cur>>
    /\ UNCHANGED xvars

\* The body ends, by a panic, after its last write.
OvPanic == BodyPanic /\ h.nlogs = OvMaxWrites

NextOverflow ==
    \/ OvBegin
    \/ OvLogWrite
    \/ Store
    \/ OvPanic
    \/ TxRollbackOuter
    \/ JNotifyPage
    \/ JNotifyDone
    \/ JApplyLog
    \/ JApplyDone
    \/ JSetFlag
    \/ JClearEnter
    \/ JClearLog
    \/ JDeallocPage
    \/ JComplete
    \/ JDrop

SpecOverflow == InitOverflow /\ [][NextOverflow]_vars

\* The records of the journal in a given state.
RecordsIn(st) ==
    UNION {{r.id : r \in {rr \in Range(pages[p].logs) : rr.st = st}} :
           p \in DOMAIN pages}

\* C14 as stated: the body that has appended 200 records has exactly three
\* pages, and the rollback restores all 200 preimages.
C14_ThreePages ==
    /\ (arg.op = "overflow" /\ pc = "body" /\ h.nlogs = 200) => Len(pages) = 3
    /\ (arg.op = "overflow" /\ pc = "setflag" /\ jop = "rollback") =>
          RecordsIn("RolledBack") = 1..h.nlogs

\* C14 as amended: the body that has appended 200 records has exactly four
\* pages, three full ones and the newest with 8 records; Journal.rollback
\* copies back the preimage of every record, and after a body that wrote
\* each cell once the cells have their values of before the transaction.
C14_FourPages ==
    (arg.op = "overflow") =>
        /\ (pc = "body" /\ h.nlogs = 200) =>
              /\ Len(pages) = 4
              /\ pages[1].len = 8
              /\ \A p \in 2..4 : pages[p].len = PAGE_SIZE
        /\ (pc = "setflag" /\ jop = "rollback") =>
              RecordsIn("RolledBack") = 1..h.nlogs
        /\ (Returned /\ h.panicked /\ arg.cells = "distinct") =>
              \A l \in DOMAIN mem : mem[l] = 0

\* C14's case: the transaction of 200 writes to 200 cells has been rolled
\* back and has returned.
C14_Witness ==
    /\ arg.op = "overflow" /\ arg.cells = "distinct"
    /\ Returned /\ h.panicked /\ h.nlogs >= 200
    /\ mem = h.pre
    /\ h.calls = <<"rollback", "clear">>

----------------------------------------------------------------------------
\* MemPool::apply_flags(path, flags) on a path where a file exists or not.

\* open_flags
O_C == 1
O_F == 2
O_CNE == 4

\* DEFAULT_POOL_SIZE, 8 MiB.
DEFAULT_POOL_SIZE == Length(0, 8 * 1024 * 1024)

\* flags & flag != 0, for a flag of one bit.
HasFlag(fl, flag) == (fl \div flag) % 2 = 1

\* u64::count_ones
RECURSIVE count_ones(_)
count_ones(n) == IF n = 0 THEN 0 ELSE (n % 2) + count_ones(n \div 2)

\* Mutant of Shl30: the shift is done in 32 bits (bits 2 and up of size are
\* shifted out).
Shl30_u32(size) == Length(size % 4, 0)

\* size <<= 30 in u64: size < 2^28 (flags is u32), so no bit is shifted out.
Shl30(size) == Length(size, 0)

\* The flag words of the model: every combination of O_C, O_F, O_CNE with no
\* size bit, one size bit (bits 4 to 21), or several.
FlagInputs ==
    {low + 16 * size : low \in 0..7,
                       size \in {0} \cup {2^k : k \in 0..17} \cup {3, 6, 2^16 + 1}}

\* A file found at the path before the call, of some length.
OldFile == [exists |-> TRUE, len |-> Length(0, 4096), ops |-> <<>>]

\* std::fs::remove_file(path), its result ignored.
remove_file(f) ==
    [exists |-> FALSE, len |-> Length(0, 0), ops |-> Append(f.ops, "remove")]

\* create_file(path, size): open with create, then set_len(size); io = "fail"
\* when the open fails.
create_file(f, size, io) ==
    IF io = "fail" THEN [ret |-> [kind |-> "Err", msg |-> "io"], file |-> f]
    ELSE [ret |-> [kind |-> "Ok"],
          file |-> [exists |-> TRUE, len |-> size, ops |-> Append(f.ops, "create")]]

\* Self::format(path): an error when there is no file to format.
format(f) ==
    IF f.exists
    THEN [ret |-> [kind |-> "Ok"], file |-> [f EXCEPT !.ops = Append(@, "format")]]
    ELSE [ret |-> [kind |-> "Err", msg |-> "format"], file |-> f]

\* apply_flags after the size is known: create, then format.
apply_files(fl, f0, size, io) ==
    LET create == HasFlag(fl, O_C) \/ (HasFlag(fl, O_CNE) /\ ~f0.exists)
        made == IF create THEN create_file(remove_file(f0), size, io)
                ELSE [ret |-> [kind |-> "Ok"], file |-> f0]
        fmt == IF create THEN HasFlag(fl, O_F)
               ELSE ~f0.exists /\ HasFlag(fl, O_F)
    IN IF made.ret.kind = "Err" THEN made
       ELSE IF fmt THEN format(made.file)
       ELSE [ret |-> [kind |-> "Ok"], file |-> made.file]

\* Mutant of apply_flags: the size flags are validated after the files are
\* dealt with.
apply_flags_ValidatesLate(fl, f0, io) ==
    LET size == fl \div 16
        done == apply_files(fl, f0, IF size = 0 THEN DEFAULT_POOL_SIZE ELSE Shl30(size), io)
    IN IF count_ones(size) > 1
       THEN [ret |-> [kind |-> "Err", msg |-> "Cannot have multiple size flags"],
             file |-> done.file]
       ELSE IF size # 0 /\ ~(HasFlag(fl, O_C) \/ HasFlag(fl, O_CNE))
       THEN [ret |-> [kind |-> "Err",
                      msg |-> "Cannot use size flag without a create flag"],
             file |-> done.file]
       ELSE done

\* MemPool::apply_flags: what it returns and the file it leaves.
apply_flags(fl, f0, io) ==
    LET size == fl \div 16
    IN IF count_ones(size) > 1
       THEN [ret |-> [kind |-> "Err", msg |-> "Cannot have multiple size flags"],
             file |-> f0]
       ELSE IF size = 0
       THEN apply_files(fl, f0, DEFAULT_POOL_SIZE, io)
       ELSE IF ~(HasFlag(fl, O_C) \/ HasFlag(fl, O_CNE))
       THEN [ret |-> [kind |-> "Err",
                      msg |-> "Cannot use size flag without a create flag"],
             file |-> f0]
       ELSE apply_files(fl, f0, Shl30(size), io)

InitFlags ==
    /\ TInit
    /\ heap = Heap0 /\ jl = Jl0
    /\ ret = NoRet
    /\ pfile \in {NoFile, OldFile}
    /\ \E fl \in FlagInputs, io \in {"ok", "fail"} :
          arg = [op |-> "apply_flags", flags |-> fl, io |-> io, file0 |-> pfile]

ApplyFlagsCall ==
    /\ arg.op = "apply_flags"
    /\ ret = NoRet
    /\ LET r == apply_flags(arg.flags, pfile, arg.io)
       IN ret' = r.ret /\ pfile' = r.file
    /\ UNCHANGED <<besideFlags, arg>>

NextFlags == ApplyFlagsCall

SpecFlags == InitFlags /\ [][NextFlags]_vars

\* The call has returned.
FlagsReturned == arg.op = "apply_flags" /\ ret # NoRet

\* The size bits of the call's flag word.
SizeOf(fl) == fl \div 16
OneBit(n) == \E k \in 0..27 : n = 2^k

\* C15 (validation is atomic): apply_flags returns "Cannot have multiple
\* size flags" exactly when flags >> 4 has more than one bit set, and
\* "Cannot use size flag without a create flag" exactly when it has one bit
\* set and neither O_C nor O_CNE is set; in both cases the file is as it
\* was and no file operation was made.
C15_ValidationAtomic ==
    FlagsReturned =>
        LET size == SizeOf(arg.flags)
            many == size # 0 /\ ~OneBit(size)
            bare == OneBit(size) /\ arg.flags % 2 = 0 /\ (arg.flags \div 4) % 2 = 0
        IN /\ many <=> (ret.kind = "Err" /\ ret.msg = "Cannot have multiple size flags")
           /\ bare <=> (ret.kind = "Err"
                        /\ ret.msg = "Cannot use size flag without a create flag")
           /\ (many \/ bare) => (pfile = arg.file0 /\ pfile.ops = <<>>)

\* C15's case: a flag word with two size bits and O_C, on an existing file,
\* was refused.
C15_Witness ==
    /\ FlagsReturned
    /\ arg.flags = 1 + 16 * 3
    /\ arg.file0.exists
    /\ ret.kind = "Err"

\* C16 (pool file size): a file created by the call has length
\* (flags >> 4) * 2^30 when one size bit is set, O_1GB giving 2^30 and O_64TB
\* 2^46 bytes, and 8 MiB when no size bit is set.
C16_FileSize ==
    (FlagsReturned /\ \E k \in DOMAIN pfile.ops : pfile.ops[k] = "create") =>
        LET size == SizeOf(arg.flags)
        IN /\ OneBit(size) => pfile.len = Length(size, 0)
           /\ size = 0 => pfile.len = Length(0, 8388608)
           /\ (arg.flags \div 16 = 1) => pfile.len = Length(1, 0)
           /\ (arg.flags \div 16 = 65536) => pfile.len = Length(2^16, 0)
           /\ pfile.exists

\* C16's case: O_C | O_64TB created a file.
C16_Witness ==
    /\ FlagsReturned
    /\ arg.flags = 1 + 16 * 65536
    /\ ret.kind = "Ok"
    /\ pfile.ops = <<"remove", "create">>

\* C17 (O_C creates if not exists): after a call with O_C on a path where a
\* file exists, the file is the one that was there, not removed, recreated
\* or resized.
C17_KeepsExisting ==
    (FlagsReturned /\ arg.flags % 2 = 1 /\ arg.file0.exists /\ ret.kind = "Ok") =>
        /\ pfile.exists /\ pfile.len = arg.file0.len
        /\ \A k \in DOMAIN pfile.ops : pfile.ops[k] \notin {"remove", "create"}

\* C18 (O_F formats if the file exists, otherwise error): after a call with
\* O_F, no create flag and no size bit, an existing file has been formatted,
\* and on a missing file the call has returned an error.
C18_FormatsExisting ==
    (FlagsReturned /\ (arg.flags \div 2) % 2 = 1
        /\ arg.flags % 2 = 0 /\ (arg.flags \div 4) % 2 = 0
        /\ SizeOf(arg.flags) = 0) =>
        /\ arg.file0.exists => (ret.kind = "Ok" /\ pfile.ops = <<"format">>)
        /\ ~arg.file0.exists => ret.kind = "Err"

----------------------------------------------------------------------------
\* Offsets and addresses: MemPool::deref, deref_mut and off on a pool whose
\* range is [start, start + HeapUnits).

\* MemPool::allocated as the trait gives it.
allocated_default(off, len) == TRUE

\* allocated of a pool with a heap: the span starts in an allocated block
\* and ends within it.
zone_allocated(hp, off, len) ==
    \E b \in hp.alloc :
        b.off <= off /\ off < b.off + b.len /\ off + len <= b.off + b.len

\* Self::allocated(off, len) of the pool of the call.
allocated(a, hp, off, len) ==
    IF a.pool = "trait" THEN allocated_default(off, len)
    ELSE zone_allocated(hp, off, len)

\* format!("{:x}", n), a sequence of digits.
HexDigits ==
    <<"0", "1", "2", "3", "4", "5", "6", "7", "8", "9", "a", "b", "c", "d", "e", "f">>
RECURSIVE Hex(_)
Hex(n) ==
    IF n < 16 THEN <<HexDigits[n + 1]>>
    ELSE Hex(n \div 16) \o <<HexDigits[(n % 16) + 1]>>

\* format!("Bad address (0x{:x})", off)
BadAddress(off) == <<"Bad address (0x">> \o Hex(off) \o <<")">>

\* The number a sequence of hexadecimal digits writes.
RECURSIVE HexValue(_)
HexValue(ds) ==
    IF ds = <<>> THEN 0
    ELSE 16 * HexValue(SubSeq(ds, 1, Len(ds) - 1))
         + (CHOOSE d \in 0..15 : HexDigits[d + 1] = ds[Len(ds)])

\* get_unchecked: with debug assertions or access_violation_check, panics
\* unless allocated(off, 1); the reference is at start() + off.
get_unchecked(a, hp, off) ==
    IF a.build = "checked" /\ ~allocated(a, hp, off, 1)
    THEN [kind |-> "panic", msg |-> BadAddress(off)]
    ELSE [kind |-> "ref", addr |-> a.start + off, mutable |-> FALSE]

get_mut_unchecked(a, hp, off) ==
    IF a.build = "checked" /\ ~allocated(a, hp, off, 1)
    THEN [kind |-> "panic", msg |-> BadAddress(off)]
    ELSE [kind |-> "ref", addr |-> a.start + off, mutable |-> TRUE]

\* Mutant of deref: the reference is given out unchecked.
deref_Unchecked(a, hp) ==
    LET r == get_unchecked(a, hp, a.off)
    IN IF r.kind = "panic" THEN r ELSE [kind |-> "Ok", val |-> r]

\* MemPool::deref::<T>(off), size_of::<T>() = a.size.
deref(a, hp) ==
    IF allocated(a, hp, a.off, a.size)
    THEN LET r == get_unchecked(a, hp, a.off)
         IN IF r.kind = "panic" THEN r ELSE [kind |-> "Ok", val |-> r]
    ELSE [kind |-> "Err", msg |-> BadAddress(a.off)]

\* MemPool::deref_mut::<T>(off)
deref_mut(a, hp) ==
    IF allocated(a, hp, a.off, a.size)
    THEN LET r == get_mut_unchecked(a, hp, a.off)
         IN IF r.kind = "panic" THEN r ELSE [kind |-> "Ok", val |-> r]
    ELSE [kind |-> "Err", msg |-> BadAddress(a.off)]

\* rng() = start()..end()
rng(a) == [start |-> a.start, end |-> a.start + HeapUnits]

\* Mutant of valid: the end of the range is taken as inside.
valid_EndInclusive(a, x) == x >= rng(a).start /\ x <= rng(a).end

\* MemPool::valid(p), p at address x.
valid(a, x) == x >= rng(a).start /\ x < rng(a).end

\* MemPool::contains(addr)
contains(a, addr) == addr >= rng(a).start /\ addr < rng(a).end

\* MemPool::off(x)
pool_off(a, x) ==
    IF valid(a, x) THEN [kind |-> "Ok", val |-> x - a.start]
    ELSE [kind |-> "Err", msg |-> "out of valid range"]

\* The blocks a heap can hold, and the heaps made of disjoint blocks.
Blocks ==
    {b \in [off : 0..(HeapUnits - 1), len : 1..MaxAllocSize] : b.off + b.len <= HeapUnits}
Heaps ==
    {[Heap0 EXCEPT !.alloc = bs, !.avail = HeapUnits - Cardinality(UNION {Units(b) : b \in bs})] :
        bs \in {S \in SUBSET Blocks :
                  \A b1, b2 \in S : b1 # b2 => Units(b1) \cap Units(b2) = {}}}

\* A call of deref or deref_mut at an offset inside, at the end of, or beyond
\* the pool, for a type of some size; or a call of off at some address, the
\* addresses above the pool's end being those of another pool.
InitAddr ==
    /\ TInit
    /\ jl = Jl0 /\ pfile = NoFile
    /\ ret = NoRet
    /\ heap \in Heaps
    /\ \E start \in {0, 3} :
          \/ \E o \in (0..(HeapUnits + 1)) \cup {10, 255}, sz \in 0..MaxAllocSize,
                m \in BOOLEAN, bd \in {"checked", "release"}, pl \in {"trait", "zone"} :
                arg = [op |-> "deref", start |-> start, off |-> o, size |-> sz,
                       mutable |-> m, build |-> bd, pool |-> pl]
          \/ \E x \in 0..(start + HeapUnits + 2) :
                /\ heap = Heap0
                /\ arg = [op |-> "off", start |-> start, x |-> x]

DerefCall ==
    /\ arg.op = "deref"
    /\ ret = NoRet
    /\ ret' = IF arg.mutable THEN deref_mut(arg, heap) ELSE deref(arg, heap)
    /\ UNCHANGED <<tvars, arg, heap, jl, pfile>>

OffCall ==
    /\ arg.op = "off"
    /\ ret = NoRet
    /\ ret' = pool_off(arg, arg.x)
    /\ UNCHANGED <<tvars, arg, heap, jl, pfile>>

NextAddr == DerefCall \/ OffCall

SpecAddr == InitAddr /\ [][NextAddr]_vars

\* C19 (checked dereference): deref and deref_mut return Ok with a
\* reference to address start() + off, shared for deref and mutable for
\* deref_mut, exactly when allocated(off, size_of T) holds; otherwise they
\* return Err("Bad address (0x<off in hex>)") and no reference.
C19_CheckedDeref ==
    (arg.op = "deref" /\ ret # NoRet) =>
        LET inside == \/ arg.pool = "trait"
                      \/ \E b \in heap.alloc :
                            /\ arg.off \in Units(b)
                            /\ arg.off + arg.size <= b.off + b.len
        IN /\ inside <=> ret.kind = "Ok"
           /\ ret.kind = "Ok" =>
                 /\ ret.val.addr = arg.start + arg.off
                 /\ ret.val.mutable = arg.mutable
           /\ ~inside =>
                 /\ ret.kind = "Err"
                 /\ Len(ret.msg) >= 3
                 /\ ret.msg[1] = "Bad address (0x"
                 /\ ret.msg[Len(ret.msg)] = ")"
                 /\ HexValue(SubSeq(ret.msg, 2, Len(ret.msg) - 1)) = arg.off

\* C19's cases: a dereference inside an allocated block of a pool with a
\* heap was given its reference, and one at offset 255 was refused with the
\* address written "ff".
C19_Witness ==
    /\ arg.op = "deref" /\ arg.pool = "zone" /\ arg.size = 2 /\ arg.off = 1
    /\ ret # NoRet /\ ret.kind = "Ok"
    /\ [off |-> 1, len |-> 2] \in heap.alloc

C19_WitnessErr ==
    /\ arg.op = "deref" /\ arg.pool = "zone" /\ arg.off = 255
    /\ ret = [kind |-> "Err", msg |-> <<"Bad address (0x", "f", "f", ")">>]

\* C20 (pointer to offset): off(x) returns Ok(x - start()) exactly when
\* start() <= x < end(), which is when contains(x) holds, and otherwise
\* Err("out of valid range"); an offset o returned has start() + o in
\* [start(), end()) and start() + o = x, and no address of another pool is
\* given an offset.
C20_Off ==
    (arg.op = "off" /\ ret # NoRet) =>
        LET s == arg.start
            e == arg.start + HeapUnits
            inrange == s <= arg.x /\ arg.x < e
        IN /\ inrange <=> ret.kind = "Ok"
           /\ inrange <=> contains(arg, arg.x)
           /\ ret.kind = "Ok" =>
                 /\ ret.val = arg.x - s
                 /\ s + ret.val >= s /\ s + ret.val < e
                 /\ s + ret.val = arg.x
           /\ ret.kind # "Ok" => ret = [kind |-> "Err", msg |-> "out of valid range"]
           /\ arg.x >= e => ret.kind = "Err"

\* C20's cases: the last address of the pool was given its offset, and the
\* first address past the end was refused.
C20_Witness ==
    /\ arg.op = "off" /\ arg.start = 3 /\ arg.x = 3 + HeapUnits - 1
    /\ ret = [kind |-> "Ok", val |-> HeapUnits - 1]

C20_WitnessErr ==
    /\ arg.op = "off" /\ arg.start = 3 /\ arg.x = 3 + HeapUnits
    /\ ret.kind = "Err"

----------------------------------------------------------------------------
\* MemPool::dealloc: pre_dealloc, then perform, on a heap whose units hold
\* values, with crashes and the recovery of the zone.

\* What a unit of unused or freshly written memory holds, and what perform
\* leaves in the first unit of a block it frees (the allocator's link).
Filled(u) == 10 + u
FreeLink == 0 - 1

\* Mutant of pre_dealloc: the block is released at once.
pre_dealloc_Immediate(hp, off, len) ==
    [hp EXCEPT !.alloc = @ \ {[off |-> off, len |-> len]}, !.avail = @ + len]

\* pre_dealloc: the metadata updates of the deallocation are staged in the
\* zone.
pre_dealloc(hp, off, len) ==
    [hp EXCEPT !.staged = @ \o <<[k |-> "free", off |-> off, len |-> len],
                                 [k |-> "gain", off |-> off, len |-> len]>>]

\* One staged update of a deallocation materialized: the block leaves the
\* allocated blocks, or available() grows.
Release(hp) ==
    LET u == Head(hp.staged)
    IN IF u.k = "free"
       THEN [hp EXCEPT !.alloc = @ \ {[off |-> u.off, len |-> u.len]},
                       !.staged = Tail(@)]
       ELSE [hp EXCEPT !.avail = @ + u.len, !.staged = Tail(@)]

\* The memory after that update: a freed block's first unit takes the link.
ReleaseMem(hp, m) ==
    LET u == Head(hp.staged)
    IN IF u.k = "free" THEN [m EXCEPT ![u.off] = FreeLink] ELSE m

InitDealloc ==
    /\ mem = [u \in 0..(HeapUnits - 1) |-> Filled(u)]
    /\ JInit
    /\ heap \in Heaps
    /\ arg = [op |-> "idle", blk |-> [off |-> 0, len |-> 0], before |-> heap.avail,
              performed |-> FALSE]
    /\ ret = NoRet /\ jl = Jl0 /\ pfile = NoFile

\* dealloc(ptr, size): pre_dealloc(ptr, size) of a block currently allocated.
DeallocPre(b) ==
    /\ arg.op \in {"idle", "freed", "recovered"}
    /\ b \in heap.alloc
    /\ heap' = pre_dealloc(heap, b.off, b.len)
    /\ arg' = [op |-> "staged", blk |-> b, before |-> heap.avail, performed |-> FALSE]
    /\ ret' = NoRet
    /\ UNCHANGED <<linked, pages, flags, sec_id, chaperon, chapFile, pc, depth, nest,
                   chaperoned, session, jop, drv, cur, pend, h, mem, jl, pfile>>

\* perform(zone) begins: the operating flag is set.
DeallocPerformBegin ==
    /\ arg.op = "staged"
    /\ heap' = [heap EXCEPT !.operating = TRUE]
    /\ arg' = [arg EXCEPT !.op = "performing", !.performed = TRUE]
    /\ UNCHANGED <<linked, pages, flags, sec_id, chaperon, chapFile, pc, depth, nest,
                   chaperoned, session, jop, drv, cur, pend, h, mem, ret, jl, pfile>>

\* perform(zone): one staged update is materialized.
DeallocPerformStep ==
    /\ arg.op = "performing"
    /\ heap.staged # <<>>
    /\ heap' = Release(heap)
    /\ mem' = ReleaseMem(heap, mem)
    /\ UNCHANGED <<linked, pages, flags, sec_id, chaperon, chapFile, pc, depth, nest,
                   chaperoned, session, jop, drv, cur, pend, h, arg, ret, jl, pfile>>

\* perform(zone) ends, and dealloc returns.
DeallocPerformEnd ==
    /\ arg.op = "performing"
    /\ heap.staged = <<>>
    /\ heap' = [heap EXCEPT !.dof = {}, !.operating = FALSE]
    /\ arg' = [arg EXCEPT !.op = "freed"]
    /\ ret' = [kind |-> "dealloc"]
    /\ UNCHANGED <<linked, pages, flags, sec_id, chaperon, chapFile, pc, depth, nest,
                   chaperoned, session, jop, drv, cur, pend, h, mem, jl, pfile>>

\* The process is killed inside dealloc.
DeallocCrash ==
    /\ arg.op \in {"staged", "performing"}
    /\ arg' = [arg EXCEPT !.op = "crashed"]
    /\ UNCHANGED <<linked, pages, flags, sec_id, chaperon, chapFile, pc, depth, nest,
                   chaperoned, session, jop, drv, cur, pend, h, mem, ret, heap, jl,
                   pfile>>

\* Recovery of the zone begins: staged updates of a zone that is not
\* operating are discarded.
DeallocRecoverBegin ==
    /\ arg.op = "crashed"
    /\ heap' = IF heap.operating THEN heap ELSE [heap EXCEPT !.staged = <<>>]
    /\ arg' = [arg EXCEPT !.op = "recovering"]
    /\ UNCHANGED <<linked, pages, flags, sec_id, chaperon, chapFile, pc, depth, nest,
                   chaperoned, session, jop, drv, cur, pend, h, mem, ret, jl, pfile>>

\* Recovery of an operating zone: the materialization is continued.
DeallocRecoverStep ==
    /\ arg.op = "recovering"
    /\ heap.staged # <<>>
    /\ heap' = Release(heap)
    /\ mem' = ReleaseMem(heap, mem)
    /\ UNCHANGED <<linked, pages, flags, sec_id, chaperon, chapFile, pc, depth, nest,
                   chaperoned, session, jop, drv, cur, pend, h, arg, ret, jl, pfile>>

\* Recovery of the zone ends.
DeallocRecoverEnd ==
    /\ arg.op = "recovering"
    /\ heap.staged = <<>>
    /\ heap' = [heap EXCEPT !.operating = FALSE]
    /\ arg' = [arg EXCEPT !.op = "recovered"]
    /\ UNCHANGED <<linked, pages, flags, sec_id, chaperon, chapFile, pc, depth, nest,
                   chaperoned, session, jop, drv, cur, pend, h, mem, ret, jl, pfile>>

NextDealloc ==
    \/ \E b \in Blocks : DeallocPre(b)
    \/ DeallocPerformBegin
    \/ DeallocPerformStep
    \/ DeallocPerformEnd
    \/ DeallocCrash
    \/ DeallocRecoverBegin
    \/ DeallocRecoverStep
    \/ DeallocRecoverEnd

SpecDealloc == InitDealloc /\ [][NextDealloc]_vars

\* C21 (pre_dealloc only stages): as long as perform has not begun for the
\* block given to pre_dealloc, whether dealloc is still running, was killed
\* or was recovered, the block is allocated, its units hold what they held
\* and available() is what it was; once dealloc has returned the block is
\* released, its first unit no longer holds its value and available() has
\* grown by the block's length.
C21_StagedOnly ==
    /\ (arg.op \in {"staged", "crashed", "recovering", "recovered"} /\ ~arg.performed) =>
          /\ arg.blk \in heap.alloc
          /\ \A u \in Units(arg.blk) : mem[u] = Filled(u)
          /\ heap.avail = arg.before
    /\ (arg.op = "freed") =>
          /\ arg.blk \notin heap.alloc
          /\ mem[arg.blk.off] # Filled(arg.blk.off)
          /\ heap.avail = arg.before + arg.blk.len

\* C21's case: a block of two units is staged for freeing and still
\* allocated, beside another allocated block.
C21_Witness ==
    /\ arg.op = "staged"
    /\ arg.blk = [off |-> 1, len |-> 2]
    /\ arg.blk \in heap.alloc
    /\ Cardinality(heap.alloc) = 2
    /\ heap.staged # <<>>

\* C21's other case: dealloc has returned and the block is released.
C21_WitnessFreed ==
    /\ arg.op = "freed"
    /\ arg.blk.len = 2
    /\ mem[arg.blk.off] = FreeLink

----------------------------------------------------------------------------
\* Threads: arg.n threads each run transaction(|j| { let mut root =
\* root.lock(j); *root += 10; }) on one pool.  Each thread has its entry
\* (journal, nesting counter) in the pool's map of journals; the root value
\* is mem["root"], guarded by a mutex whose owner is arg.owner.

MaxThreads == 3

ThreadIds == 1..MaxThreads

NoThread == 0

InitThreads ==
    /\ TInit
    /\ ret = NoRet /\ heap = Heap0 /\ jl = Jl0 /\ pfile = NoFile
    /\ \E n \in ThreadIds :
          arg = [op |-> "threads", n |-> n,
                 at |-> [t \in 1..n |-> "start"],
                 entry |-> [t \in 1..n |-> FALSE],  \* journals.contains_key(tid)
                 ref |-> [t \in 1..n |-> "none"],   \* the &mut entry the thread holds
                 cnt |-> [t \in 1..n |-> 0],        \* journal.1 in the map
                 committed |-> [t \in 1..n |-> FALSE],
                 tmp |-> [t \in 1..n |-> 0],
                 pre |-> [t \in 1..n |-> 0],
                 res |-> [t \in 1..n |-> "none"],
                 owner |-> NoThread]

\* Journal::current(true), under the pool's guard: new_journal(tid) inserts
\* the thread's entry, and get_mut gives a reference to it.  The insertion
\* may move the table of the map: a reference another thread took and has
\* not used yet then dangles, or not.
ThreadCurrent(t) ==
    /\ arg.op = "threads" /\ t \in DOMAIN arg.at
    /\ arg.at[t] = "start"
    /\ \E moved \in BOOLEAN :
          arg' = [arg EXCEPT
                    !.at[t] = "current",
                    !.entry[t] = TRUE,
                    !.ref = [u \in DOMAIN arg.ref |->
                               IF u = t THEN "valid"
                               ELSE IF moved /\ arg.ref[u] = "valid" THEN "dangling"
                               ELSE arg.ref[u]]]
    /\ UNCHANGED <<tvars, ret, heap, jl, pfile>>

\* transaction: j.1 += 1 through the reference, reset(JOURNAL_COMMITTED), and
\* the body is entered.  Through a dangling reference the increment does not
\* reach the map.
ThreadEnter(t) ==
    /\ arg.op = "threads" /\ t \in DOMAIN arg.at
    /\ arg.at[t] = "current"
    /\ arg' = [arg EXCEPT
                 !.at[t] = "body",
                 !.cnt[t] = IF arg.ref[t] = "valid" THEN @ + 1 ELSE @,
                 !.ref[t] = "none",
                 !.committed[t] = FALSE]
    /\ UNCHANGED <<tvars, ret, heap, jl, pfile>>

\* root.lock(j): blocks until the mutex is free, then holds it to the end of
\* the transaction.
ThreadLock(t) ==
    /\ arg.op = "threads" /\ t \in DOMAIN arg.at
    /\ arg.at[t] = "body"
    /\ arg.owner = NoThread
    /\ arg' = [arg EXCEPT !.at[t] = "locked", !.owner = t]
    /\ UNCHANGED <<tvars, ret, heap, jl, pfile>>

\* *root += 10, the read: the value is loaded and its preimage logged in the
\* thread's journal.
ThreadRead(t) ==
    /\ arg.op = "threads" /\ t \in DOMAIN arg.at
    /\ arg.at[t] = "locked"
    /\ arg' = [arg EXCEPT !.at[t] = "read", !.tmp[t] = mem["root"],
                          !.pre[t] = mem["root"]]
    /\ UNCHANGED <<tvars, ret, heap, jl, pfile>>

\* *root += 10, the write, in place.
ThreadWrite(t) ==
    /\ arg.op = "threads" /\ t \in DOMAIN arg.at
    /\ arg.at[t] = "read"
    /\ mem' = [mem EXCEPT !["root"] = arg.tmp[t] + 10]
    /\ arg' = [arg EXCEPT !.at[t] = "written"]
    /\ UNCHANGED <<linked, pages, flags, sec_id, chaperon, chapFile, pc, depth, nest,
                   chaperoned, session, jop, drv, cur, pend, h, ret, heap, jl, pfile>>

\* Mutant of ThreadCommit: the Ok branch of transaction rolls back.
ThreadCommit_RollsBack(t) ==
    /\ arg.op = "threads" /\ t \in DOMAIN arg.at
    /\ arg.at[t] = "written"
    /\ mem' = [mem EXCEPT !["root"] = arg.pre[t]]
    /\ arg' = [arg EXCEPT !.at[t] = "done", !.cnt[t] = @ - 1, !.res[t] = "Ok",
                          !.owner = NoThread]
    /\ UNCHANGED <<linked, pages, flags, sec_id, chaperon, chapFile, pc, depth, nest,
                   chaperoned, session, jop, drv, cur, pend, h, ret, heap, jl, pfile>>

\* The body has returned: commit() looks the entry up again and decrements
\* journal.1; at 0 the journal is committed and cleared, which ends the
\* lock's scope; transaction returns Ok(res).
ThreadCommit(t) ==
    /\ arg.op = "threads" /\ t \in DOMAIN arg.at
    /\ arg.at[t] = "written"
    /\ arg' = IF arg.cnt[t] - 1 = 0
              THEN [arg EXCEPT !.at[t] = "done", !.cnt[t] = 0, !.res[t] = "Ok",
                               !.committed[t] = TRUE, !.owner = NoThread]
              ELSE [arg EXCEPT !.at[t] = "done", !.cnt[t] = @ - 1, !.res[t] = "Ok"]
    /\ UNCHANGED <<tvars, ret, heap, jl, pfile>>

NextThreads ==
    \E t \in ThreadIds :
        \/ ThreadCurrent(t)
        \/ ThreadEnter(t)
        \/ ThreadLock(t)
        \/ ThreadRead(t)
        \/ ThreadWrite(t)
        \/ ThreadCommit(t)

SpecThreads == InitThreads /\ [][NextThreads]_vars

\* Every thread has finished.
AllDone == arg.op = "threads" /\ \A t \in DOMAIN arg.at : arg.at[t] = "done"

\* C22 (no lost updates): when every thread has finished, the root has grown
\* by 10 for each thread and every transaction has returned Ok.
C22_NoLostUpdate ==
    AllDone =>
        /\ mem["root"] = 10 * arg.n
        /\ \A t \in DOMAIN arg.res : arg.res[t] = "Ok"

\* C22's case: the largest number of threads has finished, all committed.
C22_Witness ==
    /\ AllDone
    /\ arg.n = MaxThreads
    /\ mem["root"] = 10 * MaxThreads
    /\ \A t \in DOMAIN arg.committed : arg.committed[t]

\* A thread whose reference to its entry dangled has returned Ok without
\* committing, and holds the mutex while another thread waits for it.
C22_Stuck ==
    /\ arg.op = "threads"
    /\ \E t, u \in DOMAIN arg.at :
          /\ arg.at[t] = "done" /\ ~arg.committed[t] /\ arg.owner = t
          /\ arg.at[u] = "body"

----------------------------------------------------------------------------
\* Exhaustion: a transaction whose body calls atomic_new (or atomic_new_slice,
\* atomic_new_uninit, new_uninit_for_layout) for a size the pool cannot fit.

\* atomic_new, and the same lines of atomic_new_slice, atomic_new_uninit and
\* new_uninit_for_layout: pre_alloc(size); a null pointer panics; otherwise
\* drop_on_failure(off, len, z).
atomic_new(hp, size) ==
    IF ~CanFit(hp, size)
    THEN [ret |-> [kind |-> "panic", msg |-> "Memory exhausted"], heap |-> hp]
    ELSE [ret |-> [kind |-> "Ok", off |-> FirstFit(hp, size), len |-> size],
          heap |-> drop_on_failure(pre_alloc(hp, FirstFit(hp, size), size),
                                   FirstFit(hp, size), size)]

\* A pool that cannot fit the size asked for, before the transaction.
InitExhaust ==
    /\ TInit
    /\ ret = NoRet /\ jl = Jl0 /\ pfile = NoFile
    /\ heap \in Heaps
    /\ \E size \in 1..MaxAllocSize,
          fn \in {"atomic_new", "atomic_new_slice", "atomic_new_uninit",
                  "new_uninit_for_layout"} :
          /\ ~CanFit(heap, size)
          /\ arg = [op |-> "new", fn |-> fn, size |-> size, heap0 |-> heap]

\* The transactions of the run: one nest.
ExBegin == Begin /\ h.ev = "none"

\* The body's allocation: the panic unwinds the body, and catch_unwind of
\* the running frame yields Err.
ExhaustedNew ==
    /\ pc = "body"
    /\ arg.op = "new"
    /\ ret = NoRet
    /\ LET r == atomic_new(heap, arg.size)
       IN /\ ret' = r.ret
          /\ heap' = r.heap
          /\ IF r.ret.kind = "panic"
             THEN /\ pc' = "ret_err"
                  /\ h' = [h EXCEPT !.panicked = TRUE,
                                    !.panicDepth = IF h.panicked THEN @ ELSE depth,
                                    !.stmtAfterPanic = @ \/ h.panicked]
             ELSE /\ pc' = "body"
                  /\ h' = h
    /\ UNCHANGED <<pvars, depth, nest, chaperoned, session, jop, drv, cur, pend,
                   arg, jl, pfile>>

NextExhaust ==
    \/ ExBegin
    \/ \E l \in Locs, v \in Vals : LogWrite(l, v)
    \/ Store
    \/ ExhaustedNew
    \/ TxRollbackOuter
    \/ TxRollbackInner
    \/ JNotifyPage
    \/ JNotifyDone
    \/ JApplyLog
    \/ JApplyDone
    \/ JSetFlag
    \/ JClearEnter
    \/ JClearLog
    \/ JDeallocPage
    \/ JComplete
    \/ JDrop

SpecExhaust == InitExhaust /\ [][NextExhaust]_vars

\* The allocation of the body has been made.
Exhausted == arg.op = "new" /\ ret # NoRet

\* C23 (exhaustion): the allocation panics with "Memory exhausted" and
\* neither drop_on_failure nor perform has touched the zone; when
\* transaction() has returned, it has returned Err, the user data equals its
\* value before the transaction, the allocation map is the one before the
\* transaction and the journal is gone.
C23_Exhaustion ==
    /\ Exhausted =>
          /\ ret = [kind |-> "panic", msg |-> "Memory exhausted"]
          /\ h.panicked
          /\ heap = arg.heap0
    /\ (Exhausted /\ Returned) =>
          /\ h.res = "Unsuccessful transaction"
          /\ mem = h.pre
          /\ heap.alloc = arg.heap0.alloc /\ heap.avail = arg.heap0.avail
          /\ pages = <<>> /\ ~linked

\* The part of C23 that does not depend on how rollback restores the
\* user data: the panic, the untouched zone, the Err and the allocation map.
C23_ExceptUserData ==
    /\ Exhausted =>
          /\ ret = [kind |-> "panic", msg |-> "Memory exhausted"]
          /\ h.panicked
          /\ heap = arg.heap0
    /\ (Exhausted /\ Returned) =>
          /\ h.res = "Unsuccessful transaction"
          /\ heap.alloc = arg.heap0.alloc /\ heap.avail = arg.heap0.avail
          /\ pages = <<>> /\ ~linked

\* The user data after an exhausted transaction that logged every location
\* at most once.
C23_SingleLogged ==
    (Exhausted /\ Returned /\ h.nlogs <= 1) => mem = h.pre

----------------------------------------------------------------------------
\* Journal::start_session(chaperon) on a journal that is attached or not,
\* for a chaperone that has given out arg.sections sections.

\* Chaperon::new_section: the chaperone's next section; its id is the number
\* of sections given out.
new_section(n) == n + 1

\* Mutant of start_session: an attached journal is attached again.
start_session_Reattaches(sid, path, filename, n) ==
    [ret |-> [kind |-> "Ok"], sec_id |-> new_section(n), chaperon |-> filename,
     sections |-> new_section(n)]

\* Journal::start_session: what it does to sec_id, the stored path and the
\* chaperone's sections, and how it ends.
start_session(sid, path, filename, n) ==
    IF sid # 0
    THEN IF path # filename
         THEN [ret |-> [kind |-> "panic",
                        msg |-> "Cannot attach to another chaperoned session"],
               sec_id |-> sid, chaperon |-> path, sections |-> n]
         ELSE [ret |-> [kind |-> "Ok"], sec_id |-> sid, chaperon |-> path,
               sections |-> n]
    ELSE [ret |-> [kind |-> "Ok"], sec_id |-> new_section(n), chaperon |-> filename,
          sections |-> new_section(n)]

\* The file names of the chaperones of the model.
ChapNames == {"chap", "other", "third"}

InitSession ==
    /\ mem = [l \in Locs |-> 0]
    /\ linked = TRUE /\ pages = <<>> /\ flags = 0 /\ chapFile = "open"
    /\ pc = "idle" /\ depth = 0 /\ nest = 0 /\ chaperoned = FALSE /\ session = TRUE
    /\ jop = "none" /\ drv = "none" /\ cur = Cur0 /\ pend = NoPend /\ h = HInit
    /\ ret = NoRet /\ heap = Heap0 /\ jl = Jl0 /\ pfile = NoFile
    /\ \/ sec_id = 0 /\ chaperon = ""
       \/ sec_id \in 1..MaxSecId /\ chaperon \in ChapNames
    /\ \E n \in 0..MaxSecId :
          /\ arg = [op |-> "start_session", filename |-> "", sections |-> n,
                    sid0 |-> sec_id, path0 |-> chaperon, n0 |-> n]

\* transaction() under a chaperone calls journal.start_session(&mut chaperon).
StartSessionCall(filename) ==
    /\ arg.op = "start_session"
    /\ ret.kind # "panic"
    /\ arg.sections <= MaxSecId
    /\ LET r == start_session(sec_id, chaperon, filename, arg.sections)
       IN /\ ret' = r.ret
          /\ sec_id' = r.sec_id
          /\ chaperon' = r.chaperon
          /\ arg' = [op |-> "start_session", filename |-> filename,
                     sections |-> r.sections,
                     sid0 |-> sec_id, path0 |-> chaperon, n0 |-> arg.sections]
    /\ UNCHANGED <<mem, linked, pages, flags, chapFile, pc, depth, nest, chaperoned,
                   session, jop, drv, cur, pend, h, heap, jl, pfile>>

\* Journal::complete on an attached journal whose chaperone file loads: the
\* stored path is freed and sec_id is reset.
CompleteCall ==
    /\ arg.op = "start_session"
    /\ ret.kind = "Ok"
    /\ sec_id # 0 /\ chaperon # ""
    /\ sec_id' = 0
    /\ chaperon' = ""
    /\ ret' = NoRet
    /\ UNCHANGED <<mem, linked, pages, flags, chapFile, pc, depth, nest, chaperoned,
                   session, jop, drv, cur, pend, h, arg, heap, jl, pfile>>

NextSession ==
    \/ \E filename \in ChapNames : StartSessionCall(filename)
    \/ CompleteCall

SpecSession == InitSession /\ [][NextSession]_vars

\* start_session has been called and has ended.
SessionCalled == arg.op = "start_session" /\ ret # NoRet

\* C24 (chaperone attachment): on a journal with sec_id = 0 start_session
\* stores the chaperone's file name and a section id the chaperone had not
\* given out; on an attached journal it panics when the file name differs
\* and otherwise returns, and in both cases sec_id, the stored path and the
\* chaperone's sections are as they were.
C24_Attach ==
    SessionCalled =>
        /\ (arg.sid0 = 0) =>
              /\ ret.kind = "Ok"
              /\ chaperon = arg.filename
              /\ sec_id # 0 /\ sec_id > arg.n0
              /\ arg.sections = arg.n0 + 1
        /\ (arg.sid0 # 0 /\ arg.path0 # arg.filename) =>
              /\ ret = [kind |-> "panic",
                        msg |-> "Cannot attach to another chaperoned session"]
              /\ sec_id = arg.sid0 /\ chaperon = arg.path0
              /\ arg.sections = arg.n0
        /\ (arg.sid0 # 0 /\ arg.path0 = arg.filename) =>
              /\ ret.kind = "Ok"
              /\ sec_id = arg.sid0 /\ chaperon = arg.path0
              /\ arg.sections = arg.n0

\* C24's cases: a journal attached by one call was given the same chaperone
\* again and returned; and an attached journal refused another chaperone.
C24_Witness ==
    /\ SessionCalled
    /\ arg.sid0 # 0 /\ arg.path0 = "chap" /\ arg.filename = "chap"
    /\ arg.n0 = 1 /\ sec_id = 1
    /\ ret.kind = "Ok"

C24_WitnessPanic ==
    /\ SessionCalled
    /\ arg.sid0 # 0 /\ arg.path0 = "chap" /\ arg.filename = "other"
    /\ ret.kind = "panic"

C24_WitnessFresh ==
    /\ SessionCalled
    /\ arg.sid0 = 0 /\ arg.n0 = 1 /\ sec_id = 2 /\ chaperon = "third"

----------------------------------------------------------------------------
\* Phases of Journal::commit and Journal::rollback.

\* All the records of the journal's pages.
AllLogs == UNION {Range(pages[p].logs) : p \in DOMAIN pages}

\* No recovery has run on the journal since its transaction began.
NoRecovery == drv # "recover" /\ h.recRuns = 0 /\ h.ev # "recovered"

C25_WitnessSet ==
    /\ NoRecovery /\ jop = "rollback" /\ pc = "clr"
    /\ is_set(flags, JOURNAL_COMMITTED)
    /\ Len(pages) = 2
    /\ \A r \in AllLogs : r.st = "RolledBack"

----------------------------------------------------------------------------
\* The order in which Journal::recover visits the records.

\* The records of the journal that still own their preimage.
Owning == {r \in AllLogs : HasPreimage(r)}

\* The oldest record of location l among those that own a preimage.
Oldest(l) ==
    CHOOSE r \in Owning : r.off = l /\ \A q \in Owning : q.off = l => r.id <= q.id

\* Journal::recover is rolling the records of an uncommitted journal back.
RecoverRollsBack ==
    drv = "recover" /\ jop = "recover" /\ h.recOf = "uncommitted"

\* C26 (recovery order): for an uncommitted journal Journal.recover applies
\* the rollback to the records in exactly the reverse of the order in which
\* they were appended (the newest page first, within a page from index
\* len-1 down to 0): at every step the records already rolled back are the
\* youngest ones; and when it has gone through all of them, every logged
\* location holds the preimage of its oldest record.
C26_ReverseOrder ==
    /\ RecoverRollsBack =>
          \A i \in h.rbCalls : \A j \in PageIds(pages) : j > i => j \in h.rbCalls
    /\ (RecoverRollsBack /\ pc = "setflag") =>
          /\ h.rbCalls = PageIds(pages)
          /\ \A r \in Owning : mem[r.off] = Oldest(r.off).pre

\* C26's case: two pages, a location logged twice with different preimages,
\* the recover loop has ended and the oldest preimage is the one in place.
C26_Witness ==
    /\ RecoverRollsBack /\ pc = "setflag"
    /\ Len(pages) >= 2
    /\ \E r, q \in Owning : r.off = q.off /\ r.id < q.id /\ r.pre # q.pre
                            /\ mem[r.off] = r.pre

\* C26's case in the middle: the newest page is done, the older one is not.
C26_WitnessMid ==
    /\ RecoverRollsBack /\ pc = "apply"
    /\ Len(pages) >= 2 /\ cur.pg = 2 /\ cur.i = 1
    /\ h.rbCalls # {} /\ h.rbCalls # PageIds(pages)

----------------------------------------------------------------------------
\* Page::write and what of a page is durable.  A store goes to the cache;
\* msync writes a range of the cache back; the hardware may write any line
\* back earlier on its own; a kill keeps what was written back.

\* The kinds of record a write appends (LogEnum), for the observations.
Recs == 1..3

\* An empty slot (Log::default) and a slot written back in part.
NoRec == 0
Torn == 0 - 1

\* The page new_page has allocated and persisted: len 0, every slot default.
Page0 ==
    [op |-> "page", at |-> "idle",
     len |-> 0, logs |-> [k \in 1..PageCap |-> NoRec],       \* in the cache
     dlen |-> 0, dlogs |-> [k \in 1..PageCap |-> NoRec],     \* written back
     returned |-> {}]                                        \* slots write() has returned

\* msync(&self.logs[k], size_of::<Log>()): the slot is written back whole.
msync_slot(pg, k) == [pg EXCEPT !.dlogs[k] = pg.logs[k]]

InitPage ==
    /\ TInit
    /\ ret = NoRet /\ heap = Heap0 /\ jl = Jl0 /\ pfile = NoFile
    /\ arg = Page0

\* self.logs[self.len] = Log::new(log, notifier), on a page that is not full
\* (Journal::write takes a new page otherwise).
PageWriteStore(v) ==
    /\ arg.op = "page" /\ arg.at = "idle"
    /\ arg.len < PageCap
    /\ arg' = [arg EXCEPT !.logs[arg.len + 1] = v, !.at = "stored"]
    /\ UNCHANGED <<tvars, ret, heap, jl, pfile>>

\* msync(&self.logs[self.len], ..).
PageWriteSync ==
    /\ arg.op = "page" /\ arg.at = "stored"
    /\ arg' = [msync_slot(arg, arg.len + 1) EXCEPT !.at = "synced"]
    /\ UNCHANGED <<tvars, ret, heap, jl, pfile>>

\* self.len += 1; the pointer to the slot is returned.  len is not synced.
PageWriteReturn ==
    /\ arg.op = "page" /\ arg.at = "synced"
    /\ arg' = [arg EXCEPT !.len = @ + 1, !.returned = @ \cup {arg.len + 1},
                          !.at = "idle"]
    /\ UNCHANGED <<tvars, ret, heap, jl, pfile>>

\* The hardware writes a line of slot k back: the whole slot, or a part of it.
PageEvictSlot(k) ==
    /\ arg.op = "page" /\ arg.at # "crashed"
    /\ arg.dlogs[k] # arg.logs[k]
    /\ \E d \in {Torn, arg.logs[k]} :
          /\ d # arg.dlogs[k]
          /\ arg' = [arg EXCEPT !.dlogs[k] = d]
    /\ UNCHANGED <<tvars, ret, heap, jl, pfile>>

\* The hardware writes the line of len back (one aligned word).
PageEvictLen ==
    /\ arg.op = "page" /\ arg.at # "crashed"
    /\ arg.dlen # arg.len
    /\ arg' = [arg EXCEPT !.dlen = arg.len]
    /\ UNCHANGED <<tvars, ret, heap, jl, pfile>>

\* The process is killed: the page is what was written back.
PageCrash ==
    /\ arg.op = "page" /\ arg.at # "crashed"
    /\ arg' = [arg EXCEPT !.len = arg.dlen, !.logs = arg.dlogs, !.at = "crashed"]
    /\ UNCHANGED <<tvars, ret, heap, jl, pfile>>

\* Recovery has cleared and deallocated the page; the next transaction's
\* first write gets a new one.
PageNew ==
    /\ arg.op = "page" /\ arg.at = "crashed"
    /\ arg' = Page0
    /\ UNCHANGED <<tvars, ret, heap, jl, pfile>>

NextPage ==
    \/ \E v \in Recs : PageWriteStore(v)
    \/ PageWriteSync
    \/ PageWriteReturn
    \/ \E k \in 1..PageCap : PageEvictSlot(k)
    \/ PageEvictLen
    \/ PageCrash
    \/ PageNew

SpecPage == InitPage /\ [][NextPage]_vars

\* C27 (Page.write): the slot is persisted before len is incremented, and
\* len is persisted before write returns; so every slot below the durable
\* len holds a whole record, and every slot write has returned is below the
\* durable len.
C27_DurableLen ==
    arg.op = "page" =>
        /\ \A k \in 1..arg.dlen : arg.dlogs[k] \in Recs
        /\ \A k \in arg.returned : k <= arg.dlen

\* The part of C27 that holds: a slot below the durable len is whole, and
\* the len in the cache never runs ahead of the slots written back.
C27_SlotsWhole ==
    arg.op = "page" =>
        /\ \A k \in 1..arg.dlen : arg.dlogs[k] \in Recs
        /\ \A k \in 1..arg.len : arg.dlogs[k] = arg.logs[k] /\ arg.logs[k] \in Recs

\* The record write() returned is lost: after the kill the page's len does
\* not cover it, and Page::recover does not visit it.
C27_Lost ==
    /\ arg.op = "page" /\ arg.at = "crashed"
    /\ \E k \in arg.returned : k > arg.len /\ arg.logs[k] \in Recs

----------------------------------------------------------------------------
\* Journal::write and Journal::new_page step by step (pin_journals off): the
\* page is a block of the pool (one unit), the head of the page list is
\* Journal::pages.

\* Ptr::dangling(): the head of an empty page list, the next of the oldest page.
DanglingPage == 0 - 1

\* The pool as new_page sees it: the zone and the journal's pages field.
Pool(hp, head) == [hp |-> hp, head |-> head]

\* Mutant of log64: the store is done at once, not staged.
log64_Unstaged(P, val) == [P EXCEPT !.head = val]

\* A::log64(off_unchecked(self.pages.off_ref()), off, z): the store to the
\* pages field is staged in the zone.
log64(P, val) ==
    [P EXCEPT !.hp.staged = Append(@, [k |-> "set", off |-> val, len |-> 0])]

\* One staged update of the zone materialized by perform.
AppendMaterialize(P) ==
    IF Head(P.hp.staged).k = "set"
    THEN [hp |-> [P.hp EXCEPT !.staged = Tail(@)], head |-> Head(P.hp.staged).off]
    ELSE [hp |-> Materialize(P.hp), head |-> P.head]

\* The Page value new_page builds: len 0, next the newest page so far.
fresh_page(next) == [len |-> 0, next |-> next]

\* The offsets of the pages from `off` along next.
RECURSIVE Chain(_, _, _)
Chain(pg, off, fuel) ==
    IF off = DanglingPage \/ fuel = 0 THEN {}
    ELSE {off} \cup Chain(pg, pg[off].next, fuel - 1)

InitAppend ==
    /\ TInit
    /\ ret = NoRet /\ heap = Heap0 /\ jl = Jl0 /\ pfile = NoFile
    /\ arg = [op |-> "append", at |-> "idle", head |-> DanglingPage,
              pg |-> [o \in 0..(HeapUnits - 1) |-> fresh_page(DanglingPage)],
              newp |-> DanglingPage,       \* the page new_page is allocating
              snap |-> [head |-> DanglingPage, alloc |-> {}, avail |-> HeapUnits],
                                           \* the pool when new_page began
              onFull |-> FALSE,            \* Page::write was called on a full page
              crashedAt |-> "none"]

\* Journal::write finds the newest page dangling or full and calls new_page:
\* A::atomic_new(page), which panics when the pool is exhausted.
AppendAtomicNew ==
    /\ arg.op = "append" /\ arg.at = "idle"
    /\ IF arg.head = DanglingPage THEN TRUE ELSE is_full(arg.pg[arg.head])
    /\ IF CanFit(heap, 1)
       THEN LET off == FirstFit(heap, 1)
            IN /\ heap' = drop_on_failure(pre_alloc(heap, off, 1), off, 1)
               /\ arg' = [arg EXCEPT !.at = "prepared", !.newp = off,
                                     !.pg[off] = fresh_page(arg.head),
                                     !.snap = [head |-> arg.head, alloc |-> heap.alloc,
                                               avail |-> heap.avail],
                                     !.crashedAt = "none"]
       ELSE /\ arg' = [arg EXCEPT !.at = "exhausted"]
            /\ heap' = heap
    /\ UNCHANGED <<tvars, ret, jl, pfile>>

\* new_page: A::log64(.., off, z).
AppendLog64 ==
    /\ arg.op = "append" /\ arg.at = "prepared"
    /\ LET P == log64(Pool(heap, arg.head), arg.newp)
       IN /\ heap' = P.hp
          /\ arg' = [arg EXCEPT !.at = "logged", !.head = P.head]
    /\ UNCHANGED <<tvars, ret, jl, pfile>>

\* new_page: A::perform(z) begins.
AppendPerformBegin ==
    /\ arg.op = "append" /\ arg.at = "logged"
    /\ heap' = [heap EXCEPT !.operating = TRUE]
    /\ arg' = [arg EXCEPT !.at = "performing"]
    /\ UNCHANGED <<tvars, ret, jl, pfile>>

\* perform(z): one staged update is materialized.
AppendPerformStep ==
    /\ arg.op = "append" /\ arg.at = "performing"
    /\ heap.staged # <<>>
    /\ LET P == AppendMaterialize(Pool(heap, arg.head))
       IN /\ heap' = P.hp
          /\ arg' = [arg EXCEPT !.head = P.head]
    /\ UNCHANGED <<tvars, ret, jl, pfile>>

\* perform(z) ends; new_page returns self.pages.
AppendPerformEnd ==
    /\ arg.op = "append" /\ arg.at = "performing"
    /\ heap.staged = <<>>
    /\ heap' = [heap EXCEPT !.dof = {}, !.operating = FALSE]
    /\ arg' = [arg EXCEPT !.at = "page"]
    /\ UNCHANGED <<tvars, ret, jl, pfile>>

\* page.as_mut().write(log, notifier): on the page new_page returned, or on
\* the newest page when it is neither dangling nor full.
AppendPageWrite ==
    /\ arg.op = "append"
    /\ \/ arg.at = "page"
       \/ arg.at = "idle" /\ arg.head # DanglingPage /\ ~is_full(arg.pg[arg.head])
    /\ arg.head # DanglingPage
    /\ arg' = [arg EXCEPT !.pg[arg.head].len = @ + 1,
                          !.onFull = @ \/ is_full(arg.pg[arg.head]),
                          !.at = "idle"]
    /\ UNCHANGED <<tvars, ret, heap, jl, pfile>>

\* The process is killed.
AppendCrash ==
    /\ arg.op = "append" /\ arg.at \notin {"crashed", "exhausted"}
    /\ arg' = [arg EXCEPT !.at = "crashed",
                          !.crashedAt = IF arg.at = "recovering" THEN @ ELSE arg.at]
    /\ UNCHANGED <<tvars, ret, heap, jl, pfile>>

\* Recovery of the zone begins: the staged updates of a zone that is not
\* operating are discarded.
AppendRecoverBegin ==
    /\ arg.op = "append" /\ arg.at = "crashed"
    /\ heap' = IF heap.operating THEN heap ELSE [heap EXCEPT !.staged = <<>>]
    /\ arg' = [arg EXCEPT !.at = "recovering"]
    /\ UNCHANGED <<tvars, ret, jl, pfile>>

\* Recovery of an operating zone: perform is re-run.
AppendRecoverStep ==
    /\ arg.op = "append" /\ arg.at = "recovering"
    /\ heap.staged # <<>>
    /\ LET P == AppendMaterialize(Pool(heap, arg.head))
       IN /\ heap' = P.hp
          /\ arg' = [arg EXCEPT !.head = P.head]
    /\ UNCHANGED <<tvars, ret, jl, pfile>>

\* Recovery of the zone ends: perform has completed, or the DropOnFailure
\* record of the zone is honoured.
AppendRecoverEnd ==
    /\ arg.op = "append" /\ arg.at = "recovering"
    /\ heap.staged = <<>>
    /\ heap' = IF heap.operating \/ heap.dof = {}
               THEN [heap EXCEPT !.dof = {}, !.operating = FALSE]
               ELSE Reclaim(heap, CHOOSE d \in heap.dof : TRUE)
    /\ arg' = [arg EXCEPT !.at = "recovered"]
    /\ UNCHANGED <<tvars, ret, jl, pfile>>

\* Journal::clear, as one step here: every page is deallocated, the head is
\* dangling.
AppendClear ==
    /\ arg.op = "append"
    /\ \/ arg.at \in {"recovered", "exhausted"}
       \/ arg.at = "idle" /\ arg.head # DanglingPage
    /\ heap' = [heap EXCEPT !.alloc = {}, !.avail = HeapUnits]
    /\ arg' = [arg EXCEPT !.at = "idle", !.head = DanglingPage,
                          !.pg = [o \in 0..(HeapUnits - 1) |-> fresh_page(DanglingPage)],
                          !.newp = DanglingPage, !.crashedAt = "none"]
    /\ UNCHANGED <<tvars, ret, jl, pfile>>

NextAppend ==
    \/ AppendAtomicNew
    \/ AppendLog64
    \/ AppendPerformBegin
    \/ AppendPerformStep
    \/ AppendPerformEnd
    \/ AppendPageWrite
    \/ AppendCrash
    \/ AppendRecoverBegin
    \/ AppendRecoverStep
    \/ AppendRecoverEnd
    \/ AppendClear

SpecAppend == InitAppend /\ [][NextAppend]_vars

\* The offsets of the allocated blocks.
AllocOffs(hp) == {b.off : b \in hp.alloc}

\* The pages of the journal, from the head on.
ListedPages == Chain(arg.pg, arg.head, HeapUnits)

\* C28 (append path, pin-journals off): Page.write is never called on a full
\* page and a page's len stays within 0..PageCap, a page behind the newest
\* one being full; the page new_page returns is empty and its next is the
\* page that was the newest; outside perform the listed pages are exactly
\* the allocated blocks, the head unchanged while the update is only staged;
\* and after a kill before perform the recovery leaves the head, the
\* allocated blocks and available() as they were when new_page began.
C28_AppendPath ==
    arg.op = "append" =>
        /\ ~arg.onFull
        /\ \A o \in ListedPages : arg.pg[o].len \in 0..PageCap
        /\ \A o \in ListedPages \ {arg.head} : is_full(arg.pg[o])
        /\ arg.at = "page" =>
              /\ arg.head = arg.newp
              /\ arg.pg[arg.head] = fresh_page(arg.snap.head)
        /\ arg.at \in {"prepared", "logged"} =>
              /\ arg.head = arg.snap.head
              /\ arg.newp \notin AllocOffs(heap)
        /\ ~heap.operating /\ arg.at \notin {"crashed", "recovering"} =>
              ListedPages = AllocOffs(heap)
        /\ (arg.at = "recovered" /\ arg.crashedAt \in {"prepared", "logged"}) =>
              /\ arg.head = arg.snap.head
              /\ heap.alloc = arg.snap.alloc
              /\ heap.avail = arg.snap.avail
              /\ heap.staged = <<>>
              /\ ListedPages = AllocOffs(heap)

\* C28's case: the newest page was full, new_page has returned a second page
\* whose next is the full one.
C28_Witness ==
    /\ arg.op = "append" /\ arg.at = "page"
    /\ arg.snap.head # DanglingPage
    /\ is_full(arg.pg[arg.snap.head])
    /\ arg.pg[arg.head].next = arg.snap.head
    /\ Cardinality(ListedPages) = 2

\* C28's case: the kill fell after log64 and before perform, over a list of
\* one full page; the recovery has left that list and no second block.
C28_WitnessCrash ==
    /\ arg.op = "append" /\ arg.at = "recovered" /\ arg.crashedAt = "logged"
    /\ arg.head # DanglingPage /\ is_full(arg.pg[arg.head])
    /\ Cardinality(heap.alloc) = 1

----------------------------------------------------------------------------
\* Journal::clear step by step (pin_journals off) on a journal that has
\* pages, neighbours in the pool's list of journals and, possibly, a
\* chaperone attachment.

MaxPages == 2

\* The list that n calls of enter_into have built: head -> n -> ... -> 1.
ListOf(n) ==
    [i \in JIds |->
        IF i <= n
        THEN [alloc |-> TRUE, next |-> i - 1, prev |-> IF i < n THEN i + 1 ELSE NoOff]
        ELSE [alloc |-> FALSE, next |-> NoOff, prev |-> NoOff]]

\* A record that went through commit.
DoneLog(k) == LogCommit(LogNotify(NewLog(k, "root", 0)))

\* np pages at the offsets 0..np-1, the newest at np-1 with len records of
\* which the first hd are cleared already; the older pages are full.
PagesOf(np, len, hd) ==
    [o \in 0..(HeapUnits - 1) |->
        IF o >= np THEN [len |-> 0, head |-> 0, next |-> DanglingPage, logs |-> <<>>]
        ELSE IF o = np - 1
        THEN [len |-> len, head |-> hd, next |-> o - 1,
              logs |-> [k \in 1..len |-> IF k <= hd THEN LogClear(DoneLog(k))
                                         ELSE DoneLog(k)]]
        ELSE [len |-> PageCap, head |-> 0, next |-> o - 1,
              logs |-> [k \in 1..PageCap |-> DoneLog(k)]]]

\* One staged update of the zone materialized by perform, in clear.
ClearMaterialize(P) ==
    IF Head(P.hp.staged).k = "set"
    THEN [hp |-> [P.hp EXCEPT !.staged = Tail(@)], head |-> Head(P.hp.staged).off]
    ELSE [hp |-> Release(P.hp), head |-> P.head]

\* Mutant of set_next_prev: the next journal's prev_off is left as it is.
set_next_prev_Kept(j, me) == j

\* if let Ok(prev) = deref_mut(self.prev_off) { prev.next_off = self.next_off }
set_prev_next(j, me) ==
    IF j[me].prev # NoOff /\ j[j[me].prev].alloc
    THEN [j EXCEPT ![j[me].prev].next = j[me].next]
    ELSE j

\* if let Ok(next) = deref_mut(self.next_off) { next.prev_off = self.prev_off }
set_next_prev(j, me) ==
    IF j[me].next # NoOff /\ j[j[me].next].alloc
    THEN [j EXCEPT ![j[me].next].prev = j[me].prev]
    ELSE j

InitClear ==
    /\ mem = [l \in Locs |-> 0]
    /\ linked = TRUE /\ pages = <<>> /\ flags = JOURNAL_COMMITTED
    /\ pc = "idle" /\ depth = 0 /\ nest = 0 /\ chaperoned = FALSE /\ session = FALSE
    /\ jop = "none" /\ drv = "none" /\ cur = Cur0 /\ pend = NoPend /\ h = HInit
    /\ ret = NoRet /\ pfile = NoFile
    /\ \/ sec_id = 0 /\ chaperon = "" /\ chapFile = "none"
       \/ sec_id = 1 /\ chaperon = "c1.pool" /\ chapFile \in {"none", "complete"}
    /\ \E n \in JIds, np \in 0..MaxPages, len \in 1..PageCap :
         \E me \in 1..n, hd \in 0..len :
          /\ np = 0 => (len = 1 /\ hd = 0)
          /\ jl = [Jl0 EXCEPT !.head = n, !.j = ListOf(n), !.own = 1..n]
          /\ heap = [Heap0 EXCEPT !.alloc = {[off |-> o, len |-> 1] : o \in 0..(np - 1)},
                                  !.avail = HeapUnits - np]
          /\ arg = [op |-> "clear", at |-> "pages", me |-> me,
                    head |-> np - 1, pg |-> PagesOf(np, len, hd),
                    nxt |-> DanglingPage,
                    np0 |-> np, prev0 |-> ListOf(n)[me].prev,
                    next0 |-> ListOf(n)[me].next,
                    early |-> FALSE]   \* a page was deallocated with a record not cleared

\* Page::clear of the newest page, one record: logs[i].clear(); head += 1.
ClrLog ==
    /\ arg.op = "clear" /\ arg.at = "pages"
    /\ arg.head # DanglingPage
    /\ arg.pg[arg.head].head < arg.pg[arg.head].len
    /\ arg' = [arg EXCEPT !.pg[arg.head].logs[arg.pg[arg.head].head + 1] = LogClear(@),
                          !.pg[arg.head].head = @ + 1]
    /\ UNCHANGED <<tvars, ret, heap, jl, pfile>>

\* let nxt = page.next; ...; z = A::pre_dealloc(page, size_of::<Page>()).
ClrPreDealloc ==
    /\ arg.op = "clear" /\ arg.at = "pages"
    /\ arg.head # DanglingPage
    /\ arg.pg[arg.head].head >= arg.pg[arg.head].len
    /\ heap' = pre_dealloc(heap, arg.head, 1)
    /\ arg' = [arg EXCEPT !.at = "staged", !.nxt = arg.pg[arg.head].next,
                          !.early = @ \/ \E k \in 1..arg.pg[arg.head].len :
                                             arg.pg[arg.head].logs[k].st # "Cleared"]
    /\ UNCHANGED <<tvars, ret, jl, pfile>>

\* A::log64(off_unchecked(self.pages.off_ref()), nxt.off(), z).
ClrLog64 ==
    /\ arg.op = "clear" /\ arg.at = "staged"
    /\ LET P == log64(Pool(heap, arg.head), arg.nxt)
       IN /\ heap' = P.hp
          /\ arg' = [arg EXCEPT !.at = "logged", !.head = P.head]
    /\ UNCHANGED <<tvars, ret, jl, pfile>>

\* A::perform(z) begins.
ClrPerformBegin ==
    /\ arg.op = "clear" /\ arg.at = "logged"
    /\ heap' = [heap EXCEPT !.operating = TRUE]
    /\ arg' = [arg EXCEPT !.at = "performing"]
    /\ UNCHANGED <<tvars, ret, jl, pfile>>

\* perform(z): one staged update is materialized.
ClrPerformStep ==
    /\ arg.op = "clear" /\ arg.at = "performing"
    /\ heap.staged # <<>>
    /\ LET P == ClearMaterialize(Pool(heap, arg.head))
       IN /\ heap' = P.hp
          /\ arg' = [arg EXCEPT !.head = P.head]
    /\ UNCHANGED <<tvars, ret, jl, pfile>>

\* perform(z) ends; the while loop looks at self.pages again.
ClrPerformEnd ==
    /\ arg.op = "clear" /\ arg.at = "performing"
    /\ heap.staged = <<>>
    /\ heap' = [heap EXCEPT !.operating = FALSE]
    /\ arg' = [arg EXCEPT !.at = "pages"]
    /\ UNCHANGED <<tvars, ret, jl, pfile>>

\* The loop has ended; the previous journal's next_off is set.
ClrPrev ==
    /\ arg.op = "clear" /\ arg.at = "pages"
    /\ arg.head = DanglingPage
    /\ jl' = [jl EXCEPT !.j = set_prev_next(jl.j, arg.me)]
    /\ arg' = [arg EXCEPT !.at = "next"]
    /\ UNCHANGED <<tvars, ret, heap, pfile>>

\* The next journal's prev_off is set.
ClrNext ==
    /\ arg.op = "clear" /\ arg.at = "next"
    /\ jl' = [jl EXCEPT !.j = set_next_prev(jl.j, arg.me)]
    /\ arg' = [arg EXCEPT !.at = "complete"]
    /\ UNCHANGED <<tvars, ret, heap, pfile>>

\* self.complete(): an attached journal is detached, with or without the
\* chaperone's file.
ClrComplete ==
    /\ arg.op = "clear" /\ arg.at = "complete"
    /\ IF sec_id # 0 /\ chaperon # ""
       THEN sec_id' = 0 /\ chaperon' = "" /\ chapFile' = "none"
       ELSE UNCHANGED <<sec_id, chaperon, chapFile>>
    /\ arg' = [arg EXCEPT !.at = "drop"]
    /\ UNCHANGED <<mem, linked, pages, flags, pc, depth, nest, chaperoned, session,
                   jop, drv, cur, pend, h, ret, heap, jl, pfile>>

\* A::drop_journal(self): the journal is deallocated; the head of the list,
\* when it is this journal, moves to its next.
ClrDrop ==
    /\ arg.op = "clear" /\ arg.at = "drop"
    /\ jl' = [jl EXCEPT !.j[arg.me].alloc = FALSE,
                        !.head = IF @ = arg.me THEN jl.j[arg.me].next ELSE @,
                        !.own = @ \ {arg.me}]
    /\ linked' = FALSE
    /\ arg' = [arg EXCEPT !.at = "done"]
    /\ UNCHANGED <<mem, pages, flags, sec_id, chaperon, chapFile, pc, depth, nest,
                   chaperoned, session, jop, drv, cur, pend, h, ret, heap, pfile>>

NextClear ==
    \/ ClrLog
    \/ ClrPreDealloc
    \/ ClrLog64
    \/ ClrPerformBegin
    \/ ClrPerformStep
    \/ ClrPerformEnd
    \/ ClrPrev
    \/ ClrNext
    \/ ClrComplete
    \/ ClrDrop

SpecClear == InitClear /\ [][NextClear]_vars

\* Journal::clear has done everything but drop_journal.
ClearedAll ==
    /\ \A o \in 0..(arg.np0 - 1) :
          \A k \in 1..arg.pg[o].len : arg.pg[o].logs[k].st = "Cleared"
    /\ heap.alloc = {} /\ heap.avail = HeapUnits /\ heap.staged = <<>>
    /\ arg.head = DanglingPage
    /\ JAllocated(arg.prev0) => jl.j[arg.prev0].next = arg.next0
    /\ JAllocated(arg.next0) => jl.j[arg.next0].prev = arg.prev0
    /\ sec_id = 0 /\ chaperon = ""

\* C29 (Journal.clear, pin-journals off): clear ends with every record of
\* every page cleared, every page deallocated, the head dangling, the
\* neighbours linked to each other, the chaperone attachment completed and
\* the journal dropped; the journal is dropped last; a page is deallocated
\* only with all its records cleared, one page a perform, and outside
\* perform the head is dangling or an allocated page, the listed pages being
\* the allocated ones.
C29_ClearEnds ==
    arg.op = "clear" =>
        /\ arg.at = "done" => (ClearedAll /\ ~jl.j[arg.me].alloc /\ ~linked)
        /\ ~jl.j[arg.me].alloc => ClearedAll
        /\ arg.at # "done" => jl.j[arg.me].alloc
        /\ ~arg.early
        /\ Len(heap.staged) <= 3
        /\ ~heap.operating =>
              /\ Chain(arg.pg, arg.head, HeapUnits) = AllocOffs(heap)
              /\ arg.at \in {"staged", "logged"} =>
                    arg.head \in AllocOffs(heap)

\* C29's case: a journal between two others, with two pages and a chaperone
\* attachment, has been cleared and dropped.
C29_Witness ==
    /\ arg.op = "clear" /\ arg.at = "done"
    /\ arg.np0 = 2
    /\ arg.prev0 # NoOff /\ arg.next0 # NoOff
    /\ jl.j[arg.prev0].next = arg.next0 /\ jl.j[arg.next0].prev = arg.prev0
    /\ sec_id = 0 /\ heap.alloc = {}

\* C29's case in the middle: the newest of two pages is deallocated and the
\* head is the older one, still allocated.
C29_WitnessMid ==
    /\ arg.op = "clear" /\ arg.at = "pages"
    /\ arg.np0 = 2 /\ arg.head = 0
    /\ AllocOffs(heap) = {0}

----------------------------------------------------------------------------
\* The back-links of the list of journals after a kill inside enter_into.

\* Every journal reached from the header is the prev_off of its successor.
BackLinked ==
    \A i \in Reachable :
        jl.j[i].next # NoOff => jl.j[jl.j[i].next].prev = i

\* The kill fell into enter_into or between it and its perform.
KilledInEnter == jl.crashIn \in {"enter_next", "enter_prev", "perform"}

\* C30 (back-links): enter_into sets the new journal's next_off to the head
\* of the list and leaves the head to the following perform, while the old
\* head's prev_off is written at once; and after a kill at any point of
\* enter_into or before that perform, in the list the recovery finds and in
\* the list it leaves after each journal it has cleared, every journal
\* reached from the header is the prev_off of its successor, up to the empty
\* list the recovery ends with.
C30_BackLinks ==
    /\ jl.op.step \in {"enter_prev", "perform"} =>
          /\ jl.head # jl.op.t
          /\ jl.j[jl.op.t].next = jl.head
          /\ ~jl.j[jl.op.t].alloc
    /\ (jl.op.step = "perform" /\ JAllocated(jl.head)) =>
          jl.j[jl.head].prev = jl.op.t
    /\ (jl.mode \in {"crashed", "recover"} /\ jl.op = NoOp /\ KilledInEnter) =>
          BackLinked
    /\ (jl.mode = "run" /\ jl.crashIn = "none" /\ jl.op = NoOp) => BackLinked

\* C30's case: the kill fell between the store to the old head's prev_off
\* and the perform, over a list of two journals; the old head's prev_off
\* names the journal that was never linked, and the list is back-linked.
C30_Witness ==
    /\ jl.mode = "crashed" /\ jl.crashIn = "perform"
    /\ jl.head # NoOff /\ jl.j[jl.head].next # NoOff
    /\ jl.j[jl.head].prev # NoOff /\ ~jl.j[jl.j[jl.head].prev].alloc
    /\ jl.j[jl.j[jl.head].next].prev = jl.head

\* C30's case during the recovery: the old head has been cleared and
\* dropped, its successor is the head.
C30_WitnessRecovery ==
    /\ jl.mode = "recover" /\ jl.op = NoOp /\ KilledInEnter
    /\ Cardinality(Uncleared) = 1 /\ jl.head # NoOff

----------------------------------------------------------------------------
\* The driver of a chaperoned transaction.

\* A chaperone session is running (no crash since it began).
InSession == session /\ h.chapTx /\ h.ev = "none"

\* C31 (chaperoned transaction): when transaction() under a chaperone has
\* returned Ok, no Journal method was called, the nesting counter is what
\* the frame made it, the records are armed and COMMITTED is clear; when it
\* has panicked again, the same holds and no Err was returned; and in a
\* session Journal.commit, Journal.rollback and Journal.clear run only from
\* the chaperone's callbacks.
C31_ChaperonedDriver ==
    /\ (InSession /\ pc \in {"sess_ok", "sess_err"}) =>
          /\ h.calls = <<>>
          /\ nest = 1 /\ depth = 0
          /\ linked /\ ~is_set(flags, JOURNAL_COMMITTED)
          /\ \A r \in AllLogs : r.st = "Armed"
    /\ (InSession /\ pc = "sess_ok") => h.res = "Ok"
    /\ (InSession /\ pc = "sess_err") =>
          /\ h.res = "none"
          /\ 1 \in h.unwound
    /\ (InSession /\ jop \in {"commit", "rollback", "clear"}) =>
          drv \in {"chap_commit", "chap_rollback", "chap_clear"}
    /\ (InSession /\ drv \in {"tx_ok", "tx_err"}) => FALSE

\* C31's case: the chaperoned body wrote and returned; transaction() has
\* returned Ok and the journal holds the armed records.
C31_Witness ==
    /\ InSession /\ pc = "sess_ok"
    /\ AllLogs # {} /\ mem # h.pre
    /\ h.res = "Ok"

\* C31's case: the chaperoned body wrote and panicked; the panic was raised
\* again and the writes are still in place.
C31_WitnessPanic ==
    /\ InSession /\ pc = "sess_err"
    /\ AllLogs # {} /\ mem # h.pre

----------------------------------------------------------------------------
\* A chaperone session whose body calls transaction() on the pool several
\* times, one call after another or one inside another, and returns.

MaxCalls == 3

\* Journal::commit as one step: every record notified and committed.
commit_pages(pgs) ==
    [p \in DOMAIN pgs |->
        [pgs[p] EXCEPT !.logs = [k \in DOMAIN pgs[p].logs |->
                                    LogCommit(LogNotify(pgs[p].logs[k]))]]]

InitMulti ==
    /\ mem = [l \in Locs |-> 0]
    /\ linked = FALSE /\ pages = <<>> /\ flags = 0
    /\ sec_id = 0 /\ chaperon = "" /\ chapFile = "open"
    /\ pc = "sess" /\ depth = 0 /\ nest = 0 /\ chaperoned = FALSE /\ session = TRUE
    /\ jop = "none" /\ drv = "none" /\ cur = Cur0 /\ pend = NoPend /\ h = HInit
    /\ ret = NoRet /\ heap = Heap0 /\ jl = Jl0 /\ pfile = NoFile
    /\ arg = [op |-> "multi",
              cbs |-> 0,             \* callback triples postponed on the chaperone
              ci |-> 0,              \* callbacks of the running round called so far
              nlogs |-> 0,           \* records appended
              commits |-> 0,         \* Journal.commit runs
              clearedAfter |-> "none"]   \* what Journal.clear found: "commit" or "nothing"

\* transaction() under the chaperone: the callbacks are postponed, the
\* journal is obtained, the counter incremented, the journal attached and
\* COMMITTED reset; the body starts.
MultiBegin ==
    /\ arg.op = "multi" /\ pc \in {"sess", "body"}
    /\ arg.cbs < MaxCalls
    /\ CurrentCreate
    /\ nest' = nest + 1
    /\ depth' = depth + 1
    /\ chaperoned' = TRUE
    /\ IF sec_id # 0
       THEN UNCHANGED <<sec_id, chaperon>>
       ELSE sec_id' = 1 /\ chaperon' = "chap"
    /\ pc' = "body"
    /\ arg' = [arg EXCEPT !.cbs = @ + 1]
    /\ UNCHANGED <<mem, chapFile, session, jop, drv, cur, pend, h, ret, heap, jl, pfile>>

\* A logged write of a body: the undo record, then the store.
MultiWrite(l, v) ==
    /\ arg.op = "multi" /\ pc = "body"
    /\ arg.nlogs < MaxWrites
    /\ pages' = journal_write(pages, NewLog(arg.nlogs + 1, l, mem[l]))
    /\ mem' = [mem EXCEPT ![l] = v]
    /\ arg' = [arg EXCEPT !.nlogs = @ + 1]
    /\ UNCHANGED <<linked, flags, sec_id, chaperon, chapFile, pc, depth, nest,
                   chaperoned, session, jop, drv, cur, pend, h, ret, heap, jl, pfile>>

\* The body returns and transaction() returns Ok: chaperoned, it neither
\* commits nor touches the counter.
MultiReturn ==
    /\ arg.op = "multi" /\ pc = "body"
    /\ depth' = depth - 1
    /\ pc' = IF depth - 1 = 0 THEN "sess" ELSE "body"
    /\ UNCHANGED <<pvars, nest, chaperoned, session, jop, drv, cur, pend, h, xvars>>

\* The session's body has returned: the chaperone goes through the
\* postponed commit callbacks.
MultiSessionEnd ==
    /\ arg.op = "multi" /\ pc = "sess"
    /\ arg.cbs >= 1
    /\ pc' = "sess_ok"
    /\ arg' = [arg EXCEPT !.ci = 0]
    /\ UNCHANGED <<pvars, depth, nest, chaperoned, session, jop, drv, cur, pend, h,
                   ret, heap, jl, pfile>>

\* One postponed commit callback, MemPool::commit_no_clear: Journal.commit
\* when the counter is 1.
MultiCommitCallback ==
    /\ arg.op = "multi" /\ pc = "sess_ok"
    /\ arg.ci < arg.cbs
    /\ IF nest = 1
       THEN /\ pages' = commit_pages(pages)
            /\ flags' = set(flags, JOURNAL_COMMITTED)
            /\ arg' = [arg EXCEPT !.ci = @ + 1, !.commits = 1]
       ELSE /\ UNCHANGED <<pages, flags>>
            /\ arg' = [arg EXCEPT !.ci = @ + 1]
    /\ UNCHANGED <<mem, linked, sec_id, chaperon, chapFile, pc, depth, nest,
                   chaperoned, session, jop, drv, cur, pend, h, ret, heap, jl, pfile>>

\* Every commit callback was called: the chaperone marks itself complete and
\* goes through the postponed clear callbacks.
MultiMarkComplete ==
    /\ arg.op = "multi" /\ pc = "sess_ok"
    /\ arg.ci = arg.cbs
    /\ chapFile' = "complete"
    /\ pc' = "sess_complete"
    /\ arg' = [arg EXCEPT !.ci = 0]
    /\ UNCHANGED <<mem, linked, pages, flags, sec_id, chaperon, depth, nest,
                   chaperoned, session, jop, drv, cur, pend, h, ret, heap, jl, pfile>>

\* One postponed clear callback, MemPool::clear: the counter is decremented;
\* at 0 Journal.clear runs (as one step: the pages are cleared and
\* deallocated, the journal detached and dropped).
MultiClearCallback ==
    /\ arg.op = "multi" /\ pc = "sess_complete"
    /\ arg.ci < arg.cbs
    /\ nest' = nest - 1
    /\ IF nest - 1 = 0
       THEN /\ pages' = <<>>
            /\ linked' = FALSE
            /\ flags' = 0
            /\ sec_id' = 0 /\ chaperon' = "" /\ chapFile' = "none"
            /\ session' = FALSE
            /\ pc' = "idle"
            /\ arg' = [arg EXCEPT !.ci = @ + 1,
                                  !.clearedAfter = IF arg.commits > 0 THEN "commit"
                                                   ELSE "nothing"]
       ELSE /\ UNCHANGED <<pages, linked, flags, sec_id, chaperon, chapFile, session, pc>>
            /\ arg' = [arg EXCEPT !.ci = @ + 1]
    /\ UNCHANGED <<mem, depth, chaperoned, jop, drv, cur, pend, h, ret, heap, jl, pfile>>

NextMulti ==
    \/ MultiBegin
    \/ \E l \in Locs, v \in Vals : MultiWrite(l, v)
    \/ MultiReturn
    \/ MultiSessionEnd
    \/ MultiCommitCallback
    \/ MultiMarkComplete
    \/ MultiClearCallback

SpecMulti == InitMulti /\ [][NextMulti]_vars

\* C32 (chaperoned session, normal return): whatever the number of
\* transaction() calls of the session, Journal.commit has run on the journal
\* before Journal.clear clears its records.
C32_CommitBeforeClear ==
    arg.op = "multi" => arg.clearedAfter # "nothing"

\* The part of C32 that holds: a session with one transaction() call
\* commits the journal before it is cleared, and no journal is cleared while
\* a callback round is short of the last clear callback.
C32_SingleCall ==
    arg.op = "multi" =>
        /\ (arg.cbs = 1 /\ pc = "idle") => arg.clearedAfter = "commit"
        /\ (pc = "sess_complete" /\ arg.cbs = 1) =>
              /\ is_set(flags, JOURNAL_COMMITTED)
              /\ \A r \in AllLogs : r.st = "Committed"
        /\ arg.clearedAfter # "none" => (pc = "idle" /\ nest = 0)

\* The journal of a session with two calls is cleared with its records
\* armed and COMMITTED clear.
C32_ClearedArmed ==
    /\ arg.op = "multi" /\ pc = "sess_complete"
    /\ arg.cbs = 2 /\ arg.ci = 1 /\ nest = 1
    /\ AllLogs # {} /\ \A r \in AllLogs : r.st = "Armed"
    /\ ~is_set(flags, JOURNAL_COMMITTED)

----------------------------------------------------------------------------
\* The recovery of a journal found attached to a chaperone, or not, with
\* the chaperone's file missing, open or complete.

\* The pages that writes to the cells f[1], ..., f[n] have built.
RECURSIVE PagesFor(_, _)
PagesFor(f, n) ==
    IF n = 0 THEN <<>>
    ELSE journal_write(PagesFor(f, n - 1), NewLog(n, f[n], 0))

\* The same after Journal::commit.
FoundPages(f, n, committed) ==
    IF committed THEN commit_pages(PagesFor(f, n)) ELSE PagesFor(f, n)

\* The journal is COMMITTED and attached, and its chaperone's file is missing.
MissingFile ==
    /\ is_set(flags, JOURNAL_COMMITTED)
    /\ sec_id # 0 /\ chaperon # ""
    /\ chapFile = "none"

InitMissing ==
    /\ \E file \in ChapFiles :
          /\ chapFile = file
          /\ arg = [op |-> "missing",
                    file0 |-> file,         \* the chaperone's file when the pool is opened
                    completed |-> "none",   \* how Journal::complete went: "loaded", "missing", "free"
                    finished |-> 0]         \* calls of Chaperon::finish
    /\ mem = [l \in Locs |-> 1]
    /\ linked = TRUE
    /\ flags \in {0, JOURNAL_COMMITTED}
    /\ \E n \in 0..MaxWrites : \E f \in [1..n -> Locs] :
          pages = FoundPages(f, n, is_set(flags, JOURNAL_COMMITTED))
    /\ \/ sec_id = 0 /\ chaperon = ""
       \/ sec_id = 1 /\ chaperon = "chap"
    /\ pc = "crashed" /\ depth = 0 /\ nest = 0 /\ chaperoned = FALSE /\ session = FALSE
    /\ jop = "none" /\ drv = "none" /\ cur = Cur0 /\ pend = NoPend
    /\ h = [HInit EXCEPT !.ev = "crashed", !.recOf = RecKind, !.recFirst = RecKind,
                         !.chapTx = (sec_id # 0),
                         !.recTarget = RecoverRun(PState)]
    /\ ret = NoRet /\ heap = Heap0 /\ jl = Jl0 /\ pfile = NoFile

\* Journal::complete in the recovery's Journal::clear: an attached journal is
\* detached; finish is called on the chaperone if its file loads.
MissingComplete ==
    /\ arg.op = "missing"
    /\ pc = "clr_pages"
    /\ pages = <<>>
    /\ IF sec_id # 0 /\ chaperon # ""
       THEN /\ sec_id' = 0
            /\ chaperon' = ""
            /\ chapFile' = "none"
            /\ arg' = IF chapFile # "none"
                      THEN [arg EXCEPT !.completed = "loaded", !.finished = @ + 1]
                      ELSE [arg EXCEPT !.completed = "missing"]
       ELSE /\ UNCHANGED <<sec_id, chaperon, chapFile>>
            /\ arg' = [arg EXCEPT !.completed = "free"]
    /\ pc' = "clr_drop"
    /\ UNCHANGED <<mem, linked, pages, flags, depth, nest, chaperoned, session,
                   jop, drv, cur, pend, h, ret, heap, jl, pfile>>

NextMissing ==
    \/ Reopen
    \/ JNotifyPage
    \/ JRecoverDecide
    \/ JApplyLog
    \/ JApplyDone
    \/ JSetFlag
    \/ JClearEnter
    \/ JClearLog
    \/ JDeallocPage
    \/ MissingComplete
    \/ JDrop

SpecMissing == InitMissing /\ [][NextMissing]_vars

\* C33 (missing chaperone file): the recovery of a COMMITTED attached
\* journal whose chaperone file is missing goes through Journal.recover,
\* which applies the rollback to every record; and Journal.complete on an
\* attached journal whose chaperone file is missing detaches it without
\* failing and without a call of finish.
C33_MissingChaperon ==
    arg.op = "missing" =>
        /\ (drv = "recover" /\ MissingFile) => pc # "rec_failed"
        /\ (drv = "recover" /\ MissingFile /\ pc = "clr") =>
              h.rbCalls = PageIds(pages)
        /\ arg.completed = "missing" =>
              (sec_id = 0 /\ chaperon = "" /\ arg.finished = 0 /\ chapFile = "none")

\* The part of C33 that holds: Journal.complete detaches with or without
\* the file and calls finish only on a chaperone that loads; a journal that
\* is not COMMITTED is rolled back without the file being loaded.
C33_CompleteDetaches ==
    arg.op = "missing" =>
        /\ arg.completed = "missing" =>
              (sec_id = 0 /\ chaperon = "" /\ arg.finished = 0 /\ chapFile = "none")
        /\ arg.completed = "loaded" => (sec_id = 0 /\ chaperon = "" /\ arg.finished = 1)
        /\ (drv = "recover" /\ pc = "clr" /\ h.recOf = "uncommitted") =>
              h.rbCalls = PageIds(pages)
        /\ pc = "rec_failed" => (MissingFile /\ arg.file0 = "none")

\* Journal.recover has panicked in fast_forward: the journal is as it was
\* found, but for the notifiers; nothing was rolled back.
C33_RecoverPanics ==
    /\ arg.op = "missing" /\ pc = "rec_failed"
    /\ MissingFile /\ pages # <<>>
    /\ h.rbCalls = {}

\* Journal.complete has detached an attached journal whose file is missing.
C33_DetachedMissing ==
    /\ arg.op = "missing" /\ arg.completed = "missing"
    /\ pc = "clr_drop" /\ sec_id = 0 /\ arg.finished = 0

----------------------------------------------------------------------------
\* The journal with the pin_journals feature: pages are kept by
\* Journal::clear and reused by later transactions.  The pages are held in
\* allocation order: pin.pg[Len(pin.pg)] is the page `pages` points at, the
\* next of page i is page i - 1, and 0 is the dangling pointer.

MaxPinPages == 4    \* pages the pool has room for
MaxPinWrites == 5   \* records per transaction
MaxPinTxs == 3      \* transactions of the run

PinDangling == 0

\* Journal::new_page: the new page becomes `pages`, its next the old `pages`.
pin_new_page(pg) == Append(pg, [len |-> 0, head |-> 0])

\* Page::write on page p.
pin_page_write(pg, p) == [pg EXCEPT ![p] = [@ EXCEPT !.len = @ + 1]]

\* Page::clear with pin_journals: the records are cleared, then head and len
\* are zeroed.
pin_page_clear(page) == [page EXCEPT !.head = 0, !.len = 0]

\* Journal::next_page (pin_journals): "new" or the page after current.
pin_next_page(pg, current) ==
    IF current - 1 = PinDangling THEN "new"
    ELSE IF is_full(pg[current - 1]) THEN "new"
    ELSE "next"

\* Journal::write (pin_journals): where the record goes: "new" for a page
\* from new_page, "next" for current.next, "current" for current.
pin_write_target(pg, current) ==
    IF current = PinDangling THEN "new"
    ELSE IF is_full(pg[current]) THEN pin_next_page(pg, current)
    ELSE "current"

\* Some page of the journal has a free slot.
HasFreeSlot(pg) == \E p \in 1..Len(pg) : ~is_full(pg[p])

InitPin ==
    /\ TInit
    /\ ret = NoRet /\ heap = Heap0 /\ jl = Jl0 /\ pfile = NoFile
    /\ arg = [op |-> "pin",
              at |-> "idle",
              pg |-> <<>>,              \* the pages of the journal
              current |-> PinDangling,  \* Journal.current
              txs |-> 0,                \* transactions begun
              writes |-> 0,             \* records of this transaction
              allocs |-> 0,             \* pages allocated by this transaction
              kept |-> 0,               \* pages the transaction found
              spare |-> FALSE,          \* a page was allocated while a page had a free slot
              freed |-> 0]              \* pages deallocated by Journal.clear

\* transaction(): the journal of the thread, its counter 0, is handed to the body.
PinBegin ==
    /\ arg.op = "pin"
    /\ arg.at = "idle"
    /\ arg.txs < MaxPinTxs
    /\ arg' = [arg EXCEPT !.at = "body", !.txs = @ + 1, !.writes = 0,
                          !.allocs = 0, !.kept = Len(arg.pg)]
    /\ UNCHANGED <<tvars, ret, heap, jl, pfile>>

\* Journal::write (pin_journals) of one record.
PinWrite ==
    /\ arg.op = "pin"
    /\ arg.at = "body"
    /\ arg.writes < MaxPinWrites
    /\ LET t == pin_write_target(arg.pg, arg.current) IN
         IF t = "new"
         THEN /\ Len(arg.pg) < MaxPinPages
              /\ arg' = [arg EXCEPT
                          !.pg = pin_page_write(pin_new_page(arg.pg), Len(arg.pg) + 1),
                          !.writes = @ + 1,
                          !.allocs = @ + 1,
                          !.spare = @ \/ HasFreeSlot(arg.pg)]
         ELSE /\ arg' = [arg EXCEPT
                          !.pg = pin_page_write(arg.pg,
                                    IF t = "next" THEN arg.current - 1 ELSE arg.current),
                          !.writes = @ + 1]
    /\ UNCHANGED <<tvars, ret, heap, jl, pfile>>

\* The transaction ends (commit or rollback) and Journal::clear runs with
\* pin_journals: every page is cleared, current is set to `pages`.
PinClear ==
    /\ arg.op = "pin"
    /\ arg.at = "body"
    /\ arg' = [arg EXCEPT
                 !.at = "idle",
                 !.pg = [p \in 1..Len(arg.pg) |-> pin_page_clear(arg.pg[p])],
                 !.current = Len(arg.pg)]
    /\ UNCHANGED <<tvars, ret, heap, jl, pfile>>

NextPin ==
    \/ PinBegin
    \/ PinWrite
    \/ PinClear

SpecPin == InitPin /\ [][NextPin]_vars

\* C34 (pin-journals mode): Journal.clear deallocates no page and leaves
\* every page with len = 0 and head = 0 and current at the first page; a
\* page is allocated only when no page of the journal has a free slot; a
\* transaction of at most a page of records that found one page allocates
\* none, and a first transaction of at most a page of records allocates
\* exactly one page.
C34_PinnedPages ==
    arg.op = "pin" =>
        /\ (arg.at = "idle" /\ arg.txs > 0) =>
              /\ arg.freed = 0
              /\ Len(arg.pg) = arg.kept + arg.allocs
              /\ \A p \in 1..Len(arg.pg) : arg.pg[p].len = 0 /\ arg.pg[p].head = 0
              /\ arg.current = Len(arg.pg)
        /\ ~arg.spare
        /\ (arg.txs > 1 /\ arg.kept = 1 /\ arg.writes <= PageSlots) => arg.allocs = 0
        /\ (arg.txs = 1 /\ arg.writes \in 1..PageSlots) => arg.allocs = 1

\* The part of C34 that holds: what Journal.clear leaves, and the reuse of
\* current and of the page after it; a transaction of at most a page of
\* records allocates no page when it finds a page.
C34_ClearRetains ==
    arg.op = "pin" =>
        /\ (arg.at = "idle" /\ arg.txs > 0) =>
              /\ arg.freed = 0
              /\ Len(arg.pg) = arg.kept + arg.allocs
              /\ \A p \in 1..Len(arg.pg) : arg.pg[p].len = 0 /\ arg.pg[p].head = 0
              /\ arg.current = Len(arg.pg)
        /\ (arg.txs > 1 /\ arg.kept >= 1 /\ arg.writes <= PageSlots) => arg.allocs = 0
        /\ arg.txs = 1 => arg.allocs = arg.writes

\* A first transaction of two records, a page having room for both, has
\* allocated two pages.
C34_PagePerRecord ==
    /\ arg.op = "pin" /\ arg.txs = 1
    /\ arg.writes = 2 /\ arg.writes <= PageSlots
    /\ arg.allocs = 2

\* A later transaction allocates a page while the oldest page is empty.
C34_SpareSkipped ==
    /\ arg.op = "pin" /\ arg.txs > 1 /\ arg.at = "body"
    /\ arg.allocs > 0
    /\ arg.pg[1].len = 0

----------------------------------------------------------------------------
\* Threads with nested transactions: the map of journals by thread id, the
\* references Journal::current hands out, and the journals' counters.

MaxPt == 2           \* threads
PtDepth == 2         \* nested transaction() frames of a thread
MaxPtJournals == 4   \* journals created in a run
MaxPtRecs == 1       \* records a journal holds

PtThreads == 1..MaxPt

NoJournal == 0

InitPt ==
    /\ TInit
    /\ ret = NoRet /\ heap = Heap0 /\ jl = Jl0 /\ pfile = NoFile
    /\ arg = [op |-> "perthread",
              at |-> [t \in PtThreads |-> "idle"],
              frames |-> [t \in PtThreads |-> <<>>],    \* the journal each running frame was given
              entry |-> [t \in PtThreads |-> NoJournal], \* journals[tid].0, NoJournal: no entry
              cnt |-> [t \in PtThreads |-> 0],          \* journals[tid].1
              ref |-> [t \in PtThreads |-> "none"],     \* the reference current() returned
              unwinding |-> [t \in PtThreads |-> FALSE],
              lost |-> [t \in PtThreads |-> FALSE],    \* the counter was updated through a dangling reference
              recs |-> [j \in 1..MaxPtJournals |-> 0],  \* records in the pages of journal j
              made |-> 0]                               \* journals created

\* The references of the other threads after an insertion into the map: the
\* table may have moved, and a reference into it then dangles.
AfterInsert(refs, t, moved) ==
    [u \in PtThreads |->
        IF u = t THEN "valid"
        ELSE IF moved /\ refs[u] = "valid" THEN "dangling"
        ELSE refs[u]]

\* Journal::current(create), the closure run under guarded: new_journal(tid)
\* when the map has no entry for the thread and create is set; the result is
\* journals.get_mut(&tid).
current_of(a, t, create, moved) ==
    IF a.entry[t] = NoJournal /\ create
    THEN [a EXCEPT !.entry[t] = a.made + 1,
                   !.cnt[t] = 0,
                   !.made = @ + 1,
                   !.ref = AfterInsert(a.ref, t, moved)]
    ELSE [a EXCEPT !.ref[t] = IF a.entry[t] = NoJournal THEN "none" ELSE "valid"]

\* transaction(), the argument of body: Journal::current(true).
PtCurrent(t) ==
    /\ arg.op = "perthread"
    /\ arg.at[t] \in {"idle", "body"}
    /\ ~arg.unwinding[t]
    /\ Len(arg.frames[t]) < PtDepth
    /\ arg.entry[t] = NoJournal => arg.made < MaxPtJournals
    /\ \E moved \in BOOLEAN :
          arg' = [current_of(arg, t, TRUE, moved) EXCEPT !.at[t] = "cur"]
    /\ UNCHANGED <<tvars, ret, heap, jl, pfile>>

\* transaction(): .unwrap(), j.1 += 1 through the reference, and the body
\* starts with the journal j.0.  An increment through a dangling reference
\* does not reach the map.
PtEnter(t) ==
    /\ arg.op = "perthread"
    /\ arg.at[t] = "cur"
    /\ arg' = [arg EXCEPT
                 !.at[t] = "body",
                 !.cnt[t] = IF arg.ref[t] = "valid" THEN @ + 1 ELSE @,
                 !.lost[t] = @ \/ arg.ref[t] = "dangling",
                 !.ref[t] = "none",
                 !.frames[t] = Append(@, arg.entry[t])]
    /\ UNCHANGED <<tvars, ret, heap, jl, pfile>>

\* transaction(), the argument of body, when the map has no entry for the
\* thread after new_journal: .unwrap() panics before j.1 += 1, and
\* catch_unwind yields Err for a frame that holds no journal.
PtUnwrapPanics(t) ==
    /\ arg.op = "perthread"
    /\ arg.at[t] \in {"idle", "body"}
    /\ ~arg.unwinding[t]
    /\ Len(arg.frames[t]) < PtDepth
    /\ arg.entry[t] = NoJournal
    /\ arg' = [arg EXCEPT !.at[t] = "body",
                          !.unwinding[t] = TRUE,
                          !.frames[t] = Append(@, NoJournal)]
    /\ UNCHANGED <<tvars, ret, heap, jl, pfile>>

\* A logged write of the innermost body, appended to the frame's journal.
PtWrite(t) ==
    /\ arg.op = "perthread"
    /\ arg.at[t] = "body"
    /\ ~arg.unwinding[t]
    /\ LET j == arg.frames[t][Len(arg.frames[t])] IN
         /\ j = arg.entry[t]
         /\ arg.recs[j] < MaxPtRecs
         /\ arg' = [arg EXCEPT !.recs[j] = @ + 1]
    /\ UNCHANGED <<tvars, ret, heap, jl, pfile>>

\* The innermost body panics.
PtPanic(t) ==
    /\ arg.op = "perthread"
    /\ arg.at[t] = "body"
    /\ ~arg.unwinding[t]
    /\ arg' = [arg EXCEPT !.unwinding[t] = TRUE]
    /\ UNCHANGED <<tvars, ret, heap, jl, pfile>>

\* commit() or rollback(), their first line: Journal::current(false).
PtLookup(t) ==
    /\ arg.op = "perthread"
    /\ arg.at[t] = "body"
    /\ \E moved \in BOOLEAN :
          arg' = [current_of(arg, t, FALSE, moved) EXCEPT !.at[t] = "ret"]
    /\ UNCHANGED <<tvars, ret, heap, jl, pfile>>

\* commit() or rollback() after the lookup: journal.1 -= 1 through the
\* reference; at 0 the journal is committed or rolled back and cleared, and
\* drop_journal takes it out of the map.  rollback() panics when the counter
\* is not 0, which unwinds into the enclosing frame.
PtFinish(t) ==
    /\ arg.op = "perthread"
    /\ arg.at[t] = "ret"
    /\ LET rest == SubSeq(arg.frames[t], 1, Len(arg.frames[t]) - 1)
           back == IF rest = <<>> THEN "idle" ELSE "body"
           j == arg.entry[t]
       IN IF arg.ref[t] = "none"
          THEN arg' = [arg EXCEPT !.at[t] = back, !.frames[t] = rest,
                                  !.unwinding[t] = FALSE]
          ELSE IF arg.cnt[t] - 1 = 0
          THEN arg' = [arg EXCEPT !.at[t] = back, !.frames[t] = rest,
                                  !.ref[t] = "none",
                                  !.unwinding[t] = FALSE,
                                  !.recs[j] = 0,
                                  !.entry[t] = NoJournal,
                                  !.cnt[t] = 0]
          ELSE arg' = [arg EXCEPT !.at[t] = back, !.frames[t] = rest,
                                  !.ref[t] = "none",
                                  !.unwinding[t] = arg.unwinding[t] /\ rest # <<>>,
                                  !.lost[t] = @ \/ arg.ref[t] = "dangling",
                                  !.cnt[t] = IF arg.ref[t] = "valid" THEN @ - 1 ELSE @]
    /\ UNCHANGED <<tvars, ret, heap, jl, pfile>>

NextPt ==
    \E t \in PtThreads :
        \/ PtCurrent(t)
        \/ PtEnter(t)
        \/ PtUnwrapPanics(t)
        \/ PtWrite(t)
        \/ PtPanic(t)
        \/ PtLookup(t)
        \/ PtFinish(t)

SpecPt == InitPt /\ [][NextPt]_vars

\* The running frames of every thread hold one journal.
SameJournal ==
    \A t \in PtThreads : \A a, b \in 1..Len(arg.frames[t]) :
        (arg.frames[t][a] # NoJournal /\ arg.frames[t][b] # NoJournal) =>
            arg.frames[t][a] = arg.frames[t][b]

\* No journal is in the map for two threads, and a thread that is in no
\* transaction() call has no journal that current(false) could have made.
OnePerThread ==
    /\ \A t, u \in PtThreads :
          (t # u /\ arg.entry[t] # NoJournal) => arg.entry[t] # arg.entry[u]
    /\ \A t \in PtThreads :
          (arg.at[t] = "ret" /\ arg.ref[t] = "none") => arg.entry[t] = NoJournal

\* C35 (per-thread journals): under every interleaving the map holds at
\* most one journal per thread, current(true) creates one only for a thread
\* that has none, current(false) creates none, and the nested transactions
\* of a thread all receive the same journal.
C35_PerThreadJournal ==
    arg.op = "perthread" => (OnePerThread /\ SameJournal)

\* The part of C35 that holds in every state.
C35_OnePerThread ==
    arg.op = "perthread" => OnePerThread

\* The isolation part of C35, which holds: commit() and rollback() of one
\* thread, with the clear they run, leave the counter of every other thread,
\* its entry and the records of its journal as they were.
C35_Isolated ==
    [][arg.op = "perthread" =>
         \A t \in PtThreads :
            (PtLookup(t) \/ PtFinish(t)) =>
               \A u \in PtThreads \ {t} :
                  /\ arg'.cnt[u] = arg.cnt[u]
                  /\ arg'.entry[u] = arg.entry[u]
                  /\ arg.entry[u] # NoJournal =>
                        arg'.recs[arg.entry[u]] = arg.recs[arg.entry[u]]]_vars

\* A nested transaction runs with a journal other than the one of the frame
\* around it.
C35_TwoJournals ==
    /\ arg.op = "perthread"
    /\ \E t \in PtThreads :
          /\ Len(arg.frames[t]) = 2
          /\ arg.frames[t][1] # NoJournal /\ arg.frames[t][2] # NoJournal
          /\ arg.frames[t][1] # arg.frames[t][2]
          /\ arg.at[t] = "body"

----------------------------------------------------------------------------
\* The pool's global mutex (guarded) and the accesses to the map of journals
\* and to the links of the journal list, access by access.

GdOps == {"current_create", "current", "try_current", "clear"}

\* The accesses of a call, in order.  Journal::current: contains_key, then
\* new_journal when the thread has no entry and create is set, then get_mut.
\* Journal::try_current: contains_key, then get_mut when the entry is there.
\* Journal::clear: prev.next_off, next.prev_off, then drop_journal.
AccessesOf(op, has) ==
    IF op = "current_create"
        THEN IF has THEN <<"map_read", "map_read">>
             ELSE <<"map_read", "map_insert", "map_read">>
    ELSE IF op = "current"
        THEN <<"map_read", "map_read">>
    ELSE IF op = "try_current"
        THEN IF has THEN <<"map_read", "map_read">> ELSE <<"map_read">>
    ELSE <<"links_write", "links_write", "map_remove">>

\* The calls whose accesses are made inside A::guarded.
InGuarded(op) == op \in {"current_create", "current", "clear"}

InitGuard ==
    /\ TInit
    /\ ret = NoRet /\ heap = Heap0 /\ jl = Jl0 /\ pfile = NoFile
    /\ arg = [op |-> "guard",
              at |-> [t \in PtThreads |-> "idle"],
              call |-> [t \in PtThreads |-> "none"],
              prog |-> [t \in PtThreads |-> <<>>],    \* accesses still to make
              acc |-> [t \in PtThreads |-> "none"],   \* the access in progress
              has |-> [t \in PtThreads |-> FALSE],    \* journals.contains_key(tid)
              holder |-> NoThread]                    \* the thread holding the mutex

\* A thread calls current(true), current(false), try_current() or, on its
\* own journal, clear().
GdCall(t) ==
    /\ arg.op = "guard"
    /\ arg.at[t] = "idle"
    /\ \E op \in GdOps :
          /\ op = "clear" => arg.has[t]
          /\ arg' = [arg EXCEPT
                       !.at[t] = IF InGuarded(op) THEN "wait" ELSE "run",
                       !.call[t] = op,
                       !.prog[t] = AccessesOf(op, arg.has[t])]
    /\ UNCHANGED <<tvars, ret, heap, jl, pfile>>

\* guarded: the mutex is taken when it is free.
GdAcquire(t) ==
    /\ arg.op = "guard"
    /\ arg.at[t] = "wait"
    /\ arg.holder = NoThread
    /\ arg' = [arg EXCEPT !.at[t] = "run", !.holder = t]
    /\ UNCHANGED <<tvars, ret, heap, jl, pfile>>

\* The next access of the call starts.
GdAccessBegin(t) ==
    /\ arg.op = "guard"
    /\ arg.at[t] = "run"
    /\ arg.acc[t] = "none"
    /\ arg.prog[t] # <<>>
    /\ arg' = [arg EXCEPT !.acc[t] = Head(arg.prog[t]),
                          !.prog[t] = Tail(arg.prog[t])]
    /\ UNCHANGED <<tvars, ret, heap, jl, pfile>>

\* The access ends: new_journal has inserted the thread's entry,
\* drop_journal has removed it.
GdAccessEnd(t) ==
    /\ arg.op = "guard"
    /\ arg.acc[t] # "none"
    /\ arg' = [arg EXCEPT
                 !.acc[t] = "none",
                 !.has[t] = IF arg.acc[t] = "map_insert" THEN TRUE
                            ELSE IF arg.acc[t] = "map_remove" THEN FALSE
                            ELSE @]
    /\ UNCHANGED <<tvars, ret, heap, jl, pfile>>

\* The call returns; guarded releases the mutex.
GdReturn(t) ==
    /\ arg.op = "guard"
    /\ arg.at[t] = "run"
    /\ arg.acc[t] = "none"
    /\ arg.prog[t] = <<>>
    /\ arg' = [arg EXCEPT !.at[t] = "idle", !.call[t] = "none",
                          !.holder = IF @ = t THEN NoThread ELSE @]
    /\ UNCHANGED <<tvars, ret, heap, jl, pfile>>

NextGuard ==
    \E t \in PtThreads :
        \/ GdCall(t)
        \/ GdAcquire(t)
        \/ GdAccessBegin(t)
        \/ GdAccessEnd(t)
        \/ GdReturn(t)

SpecGuard == InitGuard /\ [][NextGuard]_vars

\* The object an access touches.
ObjectOf(a) == IF a \in {"links_write"} THEN "links" ELSE "map"

\* Threads t and u are both inside an access to the same object.
Overlap(t, u) ==
    /\ t # u
    /\ arg.acc[t] # "none" /\ arg.acc[u] # "none"
    /\ ObjectOf(arg.acc[t]) = ObjectOf(arg.acc[u])

\* C36 (guarded accesses): every access to the map of journals and to the
\* links of the journal list is made by the thread holding the pool's mutex,
\* and no two threads are inside accesses to the map, or to the links, at
\* the same time.
C36_GuardedAccess ==
    arg.op = "guard" =>
        /\ \A t \in PtThreads : arg.acc[t] # "none" => arg.holder = t
        /\ \A t, u \in PtThreads : ~Overlap(t, u)

\* The part of C36 that holds: the accesses of current and clear are made
\* holding the mutex and never overlap each other.
C36_CurrentAndClear ==
    arg.op = "guard" =>
        \A t \in PtThreads :
            (arg.acc[t] # "none" /\ arg.call[t] # "try_current") =>
                /\ arg.holder = t
                /\ \A u \in PtThreads :
                      (Overlap(t, u) => arg.call[u] = "try_current")

\* try_current reads the map while another thread inserts its entry.
C36_RacingLookup ==
    /\ arg.op = "guard"
    /\ \E t, u \in PtThreads :
          /\ arg.call[t] = "try_current" /\ arg.acc[t] = "map_read"
          /\ arg.call[u] = "current_create" /\ arg.acc[u] = "map_insert"
          /\ arg.holder = u

\* The frames of thread t that have incremented the counter and have not
\* yet decremented it in commit() or rollback().
RECURSIVE Counted(_)
Counted(fr) ==
    IF fr = <<>> THEN 0
    ELSE (IF Head(fr) = NoJournal THEN 0 ELSE 1) + Counted(Tail(fr))

\* C37 (nesting counter): not chaperoned, the counter of a thread's journal
\* equals, at every point, the number of the thread's transaction() frames
\* that are running or not yet committed or rolled back; it is never
\* negative and is 0 when the thread has no transaction, after any returns
\* and panics at any depth, a panic before the increment included.
C37_NestingCounter ==
    arg.op = "perthread" =>
        \A t \in PtThreads :
            /\ arg.cnt[t] = Counted(arg.frames[t])
            /\ arg.cnt[t] >= 0
            /\ arg.frames[t] = <<>> => arg.cnt[t] = 0

\* The part of C37 that holds: the same for a thread none of whose counter
\* updates went through a dangling reference.
C37_UnlessDangled ==
    arg.op = "perthread" =>
        \A t \in PtThreads :
            ~arg.lost[t] =>
                /\ arg.cnt[t] = Counted(arg.frames[t])
                /\ arg.cnt[t] >= 0
                /\ arg.frames[t] = <<>> => arg.cnt[t] = 0

\* A thread's counter is negative: its outermost commit() has decremented a
\* counter whose increment was lost.
C37_Negative ==
    /\ arg.op = "perthread"
    /\ \E t \in PtThreads : arg.cnt[t] < 0 /\ arg.at[t] = "idle"

\* A frame that panicked before its increment has been rolled back and the
\* counter is as the frame around it left it.
C37_EarlyPanic ==
    /\ arg.op = "perthread"
    /\ \E t \in PtThreads :
          /\ ~arg.lost[t]
          /\ arg.unwinding[t] /\ arg.at[t] = "ret"
          /\ arg.frames[t][Len(arg.frames[t])] = NoJournal

----------------------------------------------------------------------------
\* The COMMITTED flag across transactions of one thread: its persistent
\* copy, and the copy in the cache that reset() writes without a flush.
\* With pin_journals the journal outlives its transactions; without it
\* Journal::clear drops the journal and the next transaction gets a new one.

MaxRsTxs == 3   \* transactions of the run

NoPre == 0 - 1

\* The flags as the program reads them.
FlagsView(a) == IF a.dirty THEN a.cflags ELSE a.pflags

\* Journal::reset(JOURNAL_COMMITTED): self.flags &= !flag, no msync.
journal_reset(a) ==
    IF is_set(FlagsView(a), JOURNAL_COMMITTED)
    THEN [a EXCEPT !.cflags = reset(FlagsView(a), JOURNAL_COMMITTED), !.dirty = TRUE]
    ELSE a

\* Journal::set(JOURNAL_COMMITTED): self.flags |= flag; msync_obj(&self.flags).
journal_set(a) ==
    [a EXCEPT !.pflags = set(FlagsView(a), JOURNAL_COMMITTED), !.dirty = FALSE]

\* Journal::clear: the records are cleared; the journal is dropped unless
\* pin_journals is on.
journal_clear(a) ==
    [a EXCEPT !.log = NoPre,
              !.has = a.pin,
              !.pflags = IF a.pin THEN @ ELSE 0,
              !.dirty = IF a.pin THEN @ ELSE FALSE]

InitReset ==
    /\ TInit
    /\ ret = NoRet /\ heap = Heap0 /\ jl = Jl0 /\ pfile = NoFile
    /\ \E pin \in BOOLEAN, v \in Vals :
          arg = [op |-> "reset",
                 pin |-> pin,         \* the pin_journals feature
                 at |-> "idle",
                 has |-> FALSE,       \* the thread has a journal
                 pflags |-> 0,        \* Journal.flags in persistent memory
                 cflags |-> 0,        \* Journal.flags in the cache, when dirty
                 dirty |-> FALSE,
                 cell |-> v,          \* the persistent cell the bodies write
                 pre |-> v,           \* the cell when the transaction began
                 log |-> NoPre,       \* the undo record's preimage, NoPre: no record
                 txs |-> 0,
                 crashFlags |-> 0,    \* the persistent flags found by the last recovery
                 cameFrom |-> "none"] \* the last transaction: "commit", "recovered"

\* transaction(): the thread's journal, a new one with flags 0 when it has
\* none, then reset(JOURNAL_COMMITTED); the body starts.
RsBegin ==
    /\ arg.op = "reset"
    /\ arg.at = "idle"
    /\ arg.txs < MaxRsTxs
    /\ arg' = [journal_reset([arg EXCEPT !.has = TRUE])
                 EXCEPT !.at = "body", !.txs = @ + 1, !.pre = arg.cell,
                        !.cameFrom = "none"]
    /\ UNCHANGED <<tvars, ret, heap, jl, pfile>>

\* The cache writes the line of the flags back.
RsEvict ==
    /\ arg.op = "reset"
    /\ arg.dirty
    /\ arg' = [arg EXCEPT !.pflags = arg.cflags, !.dirty = FALSE]
    /\ UNCHANGED <<tvars, ret, heap, jl, pfile>>

\* A logged write of the body: the undo record takes the cell's value the
\* first time, and the cell is stored.
RsWrite(v) ==
    /\ arg.op = "reset"
    /\ arg.at = "body"
    /\ v # arg.cell
    /\ arg' = [arg EXCEPT !.log = IF @ = NoPre THEN arg.cell ELSE @,
                          !.cell = v]
    /\ UNCHANGED <<tvars, ret, heap, jl, pfile>>

\* The body returns: Journal::commit (the flag is set and flushed), then
\* Journal::clear.
RsCommit ==
    /\ arg.op = "reset"
    /\ arg.at = "body"
    /\ arg' = [journal_clear(journal_set(arg)) EXCEPT !.at = "idle",
                                                     !.cameFrom = "commit"]
    /\ UNCHANGED <<tvars, ret, heap, jl, pfile>>

\* The process is killed inside the body: the cache is lost.
RsCrash ==
    /\ arg.op = "reset"
    /\ arg.at = "body"
    /\ arg' = [arg EXCEPT !.at = "crashed", !.dirty = FALSE, !.cflags = 0]
    /\ UNCHANGED <<tvars, ret, heap, jl, pfile>>

\* The pool is opened again: Journal::recover rolls the records back unless
\* the journal is COMMITTED (not chaperoned: fast_forward is true), then
\* Journal::clear.
RsRecover ==
    /\ arg.op = "reset"
    /\ arg.at = "crashed"
    /\ LET rolled == IF ~is_set(arg.pflags, JOURNAL_COMMITTED) /\ arg.log # NoPre
                     THEN [arg EXCEPT !.cell = arg.log]
                     ELSE arg
       IN arg' = [journal_clear(rolled) EXCEPT !.at = "idle",
                                               !.crashFlags = arg.pflags,
                                               !.cameFrom = "recovered"]
    /\ UNCHANGED <<tvars, ret, heap, jl, pfile>>

NextReset ==
    \/ RsBegin
    \/ RsEvict
    \/ \E v \in Vals : RsWrite(v)
    \/ RsCommit
    \/ RsCrash
    \/ RsRecover

SpecReset == InitReset /\ [][NextReset]_vars

\* C38 (reset of COMMITTED): inside every transaction body the persistent
\* copy of the journal's flag reads not committed, and the recovery of a
\* crash inside a body rolls the transaction back, also when the journal is
\* reused after a committed transaction.
C38_ResetDurable ==
    arg.op = "reset" =>
        /\ arg.at = "body" => ~is_set(arg.pflags, JOURNAL_COMMITTED)
        /\ arg.cameFrom = "recovered" =>
              /\ ~is_set(arg.crashFlags, JOURNAL_COMMITTED)
              /\ arg.cell = arg.pre

\* The part of C38 that holds: the body runs with the flag reset as the
\* program reads it, and all of C38 when Journal::clear drops the journal.
C38_ResetInCache ==
    arg.op = "reset" =>
        /\ arg.at = "body" => ~is_set(FlagsView(arg), JOURNAL_COMMITTED)
        /\ ~arg.pin =>
              /\ arg.at = "body" => ~is_set(arg.pflags, JOURNAL_COMMITTED)
              /\ arg.cameFrom = "recovered" =>
                    /\ ~is_set(arg.crashFlags, JOURNAL_COMMITTED)
                    /\ arg.cell = arg.pre

\* A transaction that was running when the process was killed has been
\* fast-forwarded: its write is in the cell after the recovery.
C38_RunningFastForwarded ==
    /\ arg.op = "reset" /\ arg.cameFrom = "recovered"
    /\ is_set(arg.crashFlags, JOURNAL_COMMITTED)
    /\ arg.cell # arg.pre

----------------------------------------------------------------------------
\* A body that stages an allocation (atomic_new) and panics before
\* perform: what the later performs of the zone do with the staged update.

MaxDsTxs == 3   \* transactions of the run

PageUnits == 1  \* a journal page, in units of the heap of the model

NoBlock == [off |-> 0, len |-> 0]

\* perform(z): every staged update of the zone is materialized in order and
\* the DropOnFailure records are dropped.
RECURSIVE perform(_)
perform(hp) ==
    IF hp.staged = <<>> THEN [hp EXCEPT !.dof = {}, !.operating = FALSE]
    ELSE IF Head(hp.staged).k \in {"take", "avail"}
         THEN perform(Materialize(hp))
         ELSE perform(Release(hp))

\* Journal::clear, its loop over the pages: pre_dealloc, log64 and perform
\* for each page.
RECURSIVE clear_pages(_, _)
clear_pages(hp, pgs) ==
    IF pgs = {} THEN hp
    ELSE LET p == CHOOSE b \in pgs : \A c \in pgs : b.off <= c.off
         IN clear_pages(perform(pre_dealloc(hp, p.off, p.len)), pgs \ {p})

\* MemPool::rollback and MemPool::commit, as far as the allocator goes: the
\* call of discard is commented out; Journal::clear follows.
rollback_heap(hp, pgs) == clear_pages(hp, pgs)

InitDiscard ==
    /\ TInit
    /\ ret = NoRet /\ heap = Heap0 /\ jl = Jl0 /\ pfile = NoFile
    /\ arg = [op |-> "discard",
              at |-> "idle",
              pgs |-> {},        \* the pages of the journal
              blk |-> NoBlock,   \* the block the body has staged
              owned |-> {},      \* blocks of objects a committed transaction made
              failed |-> {},     \* blocks staged by bodies that panicked before perform
              txs |-> 0]

\* transaction(): the body starts.
DsBegin ==
    /\ arg.op = "discard"
    /\ arg.at = "idle"
    /\ arg.txs < MaxDsTxs
    /\ arg' = [arg EXCEPT !.at = "body", !.txs = @ + 1, !.blk = NoBlock]
    /\ UNCHANGED <<tvars, ret, heap, jl, pfile>>

\* A logged write of the body for which Journal::write takes a new page:
\* new_page is atomic_new, log64 and perform(z).
DsNewPage ==
    /\ arg.op = "discard"
    /\ arg.at \in {"body", "staged"}
    /\ arg.pgs = {}
    /\ LET r == atomic_new(heap, PageUnits) IN
         /\ r.ret.kind = "Ok"
         /\ heap' = perform(r.heap)
         /\ arg' = [arg EXCEPT
                      !.pgs = @ \cup {[off |-> r.ret.off, len |-> r.ret.len]},
                      !.owned = IF arg.at = "staged" THEN @ \cup {arg.blk} ELSE @,
                      !.at = IF arg.at = "staged" THEN "made" ELSE @]
    /\ UNCHANGED <<tvars, ret, jl, pfile>>

\* The body calls atomic_new(x): pre_alloc and drop_on_failure in zone z.
DsAtomicNew(size) ==
    /\ arg.op = "discard"
    /\ arg.at = "body"
    /\ LET r == atomic_new(heap, size) IN
         /\ r.ret.kind = "Ok"
         /\ heap' = r.heap
         /\ arg' = [arg EXCEPT !.at = "staged",
                               !.blk = [off |-> r.ret.off, len |-> r.ret.len]]
    /\ UNCHANGED <<tvars, ret, jl, pfile>>

\* The body calls perform(z) and links the object.
DsPerform ==
    /\ arg.op = "discard"
    /\ arg.at = "staged"
    /\ heap' = perform(heap)
    /\ arg' = [arg EXCEPT !.at = "made", !.owned = @ \cup {arg.blk}]
    /\ UNCHANGED <<tvars, ret, jl, pfile>>

\* The body returns: commit(), whose Journal::clear deallocates the pages.
DsCommit ==
    /\ arg.op = "discard"
    /\ arg.at \in {"body", "made"}
    /\ heap' = rollback_heap(heap, arg.pgs)
    /\ arg' = [arg EXCEPT !.at = "idle", !.pgs = {}, !.blk = NoBlock]
    /\ UNCHANGED <<tvars, ret, jl, pfile>>

\* The body panics, with or without a staged allocation; rollback() runs
\* Journal::rollback and Journal::clear.
DsPanic ==
    /\ arg.op = "discard"
    /\ arg.at \in {"body", "staged"}
    /\ heap' = rollback_heap(heap, arg.pgs)
    /\ arg' = [arg EXCEPT !.at = "idle", !.pgs = {}, !.blk = NoBlock,
                          !.failed = IF arg.at = "staged" THEN @ \cup {arg.blk} ELSE @]
    /\ UNCHANGED <<tvars, ret, jl, pfile>>

NextDiscard ==
    \/ DsBegin
    \/ DsNewPage
    \/ \E size \in 1..MaxAllocSize : DsAtomicNew(size)
    \/ DsPerform
    \/ DsCommit
    \/ DsPanic

SpecDiscard == InitDiscard /\ [][NextDiscard]_vars

\* C39 (staged updates of a failed transaction): when no transaction is
\* running, nothing staged by a body that panicked is left in the zone or
\* has been materialized: the allocated blocks are those of the objects
\* that committed transactions made, and available() agrees.
C39_NoLeak ==
    (arg.op = "discard" /\ arg.at = "idle") =>
        /\ heap.staged = <<>>
        /\ heap.alloc = arg.owned
        /\ heap.avail = HeapUnits - UsedUnits([heap EXCEPT !.alloc = arg.owned])

\* What holds instead: a block that is allocated without an owner, or still
\* staged, is one that a panicked body had staged.
C39_OnlyFailedLeak ==
    (arg.op = "discard" /\ arg.at = "idle") =>
        /\ heap.alloc \ arg.owned \subseteq arg.failed
        /\ \A k \in DOMAIN heap.staged :
              [off |-> heap.staged[k].off, len |-> heap.staged[k].len] \in arg.failed
        /\ arg.failed = {} =>
              (heap.staged = <<>> /\ heap.alloc = arg.owned)

\* The block of a panicked body has been made durable by the perform of
\* Journal::clear: it is allocated, has no owner and no DropOnFailure record.
C39_Leaked ==
    /\ arg.op = "discard" /\ arg.at = "idle"
    /\ \E b \in arg.failed : b \in heap.alloc /\ b \notin arg.owned
    /\ heap.dof = {} /\ heap.staged = <<>>

\* The staged update of a panicked body is materialized by the next
\* transaction's new_page.
C39_LeakedByNext ==
    /\ arg.op = "discard" /\ arg.at = "body" /\ arg.pgs # {}
    /\ \E b \in arg.failed : b \in heap.alloc /\ b \notin arg.owned

====
